---- MODULE Spec2Model ----
(***************************************************************************)
(* A model of the QR codec of paulmillr/qr: the bit-packed Bitmap          *)
(* (two Uint32 planes, "defined" and "value"), GF(256) and Reed-Solomon,   *)
(* the encoder (segment bits, version and mask selection) and the entry    *)
(* guards of the decoder.                                                  *)
(*                                                                         *)
(* A Uint32 word is modelled as the set of the positions of its set bits,  *)
(* a subset of 0..31: and = \cap, or = \cup, ~w = (0..31) \ w.  A typed    *)
(* array is a function on 0..len-1; a read outside it yields undefined,    *)
(* which every bit operation of the source coerces to 0, and a write       *)
(* outside it is dropped.                                                  *)
(***************************************************************************)
EXTENDS Integers, Sequences, FiniteSets, TLC

VARIABLES
    bm,      \* the Bitmap under test (SpecBitmap)
    pre,     \* the Bitmap before the last call
    op,      \* the last call: its name and arguments
    ret,     \* what the last call returned, or the error it threw
    steps,   \* number of calls made so far
    rs,      \* the Reed-Solomon coder under test (SpecRS)
    qr       \* a call of encodeQR and the decodeQR of its output

vars == <<bm, pre, op, ret, steps, rs, qr>>

Min(a, b) == IF a <= b THEN a ELSE b
Max(a, b) == IF a >= b THEN a ELSE b

\* a function on 1..n as an array: every element computed once
AsSeq(f) == <<>> \o f

(***************************************************************************)
(* Bounds of the model.                                                    *)
(***************************************************************************)
MaxOps == 2          \* calls per run of the Bitmap machine
MaxSmallW == 2       \* small bitmaps have width and height 1..MaxSmallW

(* JS Infinity, as used for "until the edge" sizes.                        *)
Infinity == 2147483647

AllBits == 0..31

(***************************************************************************)
(* Scalar helpers of index.ts                                              *)
(***************************************************************************)
\* mod(a, b): a % b made non-negative (b > 0)
mod(a, b) == a % b

\* x >>> 5 on the Uint32 reading of x
ushr5(x) == IF x >= 0 THEN x \div 32 ELSE 134217728 + (x \div 32)

\* bitMask(x) = (1 << (x & 31)) >>> 0
bitMask(x) == {x % 32}

\* rangeMask(shift, len): len in [0..32], shift in [0..31]
rangeMask(shift, len) ==
    IF len = 0 THEN {}
    ELSE IF len = 32 THEN AllBits
    ELSE {b \in AllBits : b >= (shift % 32) /\ b < (shift % 32) + (len % 32)}

RdWord(arr, wi) == IF wi \in DOMAIN arr THEN arr[wi] ELSE {}
WrWord(arr, wi, w) == IF wi \in DOMAIN arr THEN [arr EXCEPT ![wi] = w] ELSE arr

(***************************************************************************)
(* class Bitmap                                                            *)
(***************************************************************************)
DrawValue == {"dark", "light", "unset"}

\* Math.ceil(width / 32) | 0
WordsOf(width) == (width + 31) \div 32

\* new Bitmap({height, width}) without data: both planes zero
NewBitmap(height, width) ==
    [height |-> height, width |-> width, words |-> WordsOf(width),
     defined |-> [i \in 0..(WordsOf(width) * height - 1) |-> {}],
     value   |-> [i \in 0..(WordsOf(width) * height - 1) |-> {}]]

wordIndex(b, x, y) == y * b.words + ushr5(x)

isInside(b, x, y) == 0 <= x /\ x < b.width /\ 0 <= y /\ y < b.height

isDefined(b, x, y) == (RdWord(b.defined, wordIndex(b, x, y)) \cap bitMask(x)) # {}

get(b, x, y) == (RdWord(b.value, wordIndex(b, x, y)) \cap bitMask(x)) # {}

point(b, p) == get(b, p.x, p.y)

\* the three-valued state of a cell, as toString prints it
Cell(b, x, y) ==
    IF ~isDefined(b, x, y) THEN "unset" ELSE IF get(b, x, y) THEN "dark" ELSE "light"

\* maskWord with the defined plane assigned instead of or-ed
maskWordBug(b, wi, mask, v) ==
    [b EXCEPT !.defined = WrWord(@, wi, mask),
              !.value = WrWord(@, wi, IF v THEN RdWord(@, wi) \cup mask
                                           ELSE RdWord(@, wi) \ mask)]

\* defined[wi] |= mask; value[wi] = (value[wi] & ~mask) | (-v & mask)
maskWord(b, wi, mask, v) ==
    [b EXCEPT !.defined = WrWord(@, wi, RdWord(@, wi) \cup mask),
              !.value = WrWord(@, wi, IF v THEN RdWord(@, wi) \cup mask
                                           ELSE RdWord(@, wi) \ mask)]

set(b, x, y, v) ==
    IF v = "unset" THEN b
    ELSE maskWord(b, wordIndex(b, x, y), bitMask(x), v = "dark")

\* constructor with data: this.set(x, y, row[x]) for every cell; every cell is
\* set once, so a word ends with the bits of the cells of its 32 columns
BitmapFromData(height, width, data) ==
    LET b == NewBitmap(height, width)
        cols(wi) == (32 * (wi % b.words))..Min(32 * (wi % b.words) + 31, width - 1)
        row(wi) == data[(wi \div b.words) + 1]
    IN [b EXCEPT
          !.defined = [wi \in DOMAIN @ |->
                          {x % 32 : x \in {c \in cols(wi) : row(wi)[c + 1] # "unset"}}] @@ <<>>,
          !.value = [wi \in DOMAIN @ |->
                          {x % 32 : x \in {c \in cols(wi) : row(wi)[c + 1] = "dark"}}] @@ <<>>]

\* xy(c): wraps both coordinates modulo the dimensions
xy(b, c) == [x |-> mod(c.x, b.width), y |-> mod(c.y, b.height)]

\* size(offset) with the offset forgotten
sizeFromWhole(b, c) == [height |-> b.height, width |-> b.width]

\* size(offset): what is left of the bitmap right of and below offset
sizeFrom(b, c) == [height |-> b.height - xy(b, c).y, width |-> b.width - xy(b, c).x]

\* Bitmap.size(size, limit): clamps to limit
clampSize(size, limit) ==
    [width |-> Min(size.width, limit.width), height |-> Min(size.height, limit.height)]

\* fillRectConst, the mask of word column col of a row: the first word from
\* startBit, the last up to endBit, the words between in full
fillMask(x0, w, col) ==
    LET startWord == ushr5(x0)
        endWord == ushr5(x0 + w - 1)
        startBit == x0 % 32
        endBit == (x0 + w - 1) % 32
    IN IF col < startWord \/ col > endWord THEN {}
       ELSE IF startWord = endWord THEN rangeMask(startBit, endBit - startBit + 1)
       ELSE IF col = startWord THEN rangeMask(startBit, 32 - startBit)
       ELSE IF col = endWord THEN rangeMask(0, endBit + 1)
       ELSE AllBits

\* fillRectConst: every row y0..y0+h-1 gets maskWord (or the full word) with
\* the mask of its column; the rows are disjoint, so the words are independent
fillRectConst(b, x0, y0, w, h, v) ==
    IF w <= 0 \/ h <= 0 THEN b
    ELSE IF v = "unset" THEN b
    ELSE LET mask(wi) == IF (wi \div b.words) \in y0..(y0 + h - 1)
                         THEN fillMask(x0, w, wi % b.words) ELSE {}
         IN [b EXCEPT
               !.defined = [wi \in DOMAIN @ |-> @[wi] \cup mask(wi)] @@ <<>>,
               !.value = [wi \in DOMAIN @ |->
                             IF v = "dark" THEN @[wi] \cup mask(wi) ELSE @[wi] \ mask(wi)]
                         @@ <<>>]

\* rectWords: the chunks <<wi, bitX, xPos, yPos, bitsInWord>> in call order;
\* after the first chunk of a row every chunk starts on a word boundary
rectWords(b, x, y, width, height) ==
    IF width <= 0 \/ height <= 0 THEN <<>>
    ELSE LET first == ushr5(x)
             perRow == ushr5(x + width - 1) - first + 1
         IN AsSeq([k \in 1..(height * perRow) |->
                LET yPos == (k - 1) \div perRow
                    xPos == Max(0, 32 * (first + ((k - 1) % perRow)) - x)
                    bitX == x + xPos
                IN [wi |-> wordIndex(b, bitX, y + yPos), bitX |-> bitX, xPos |-> xPos,
                    yPos |-> yPos, n |-> Min(32 - (bitX % 32), width - xPos)]])

(***************************************************************************)
(* Callbacks handed to rect/hLine/vLine.  A DrawFn is a constant DrawValue *)
(* or a function of the relative coordinates and the current value bit.    *)
(***************************************************************************)
ConstFns == {"dark", "light", "unset"}
CallbackFns == {"checker", "holes", "invert"}

\* a callback may read the bitmap it draws on: the timing callbacks of
\* drawTemplate return undefined for a cell that is already defined
ApplyFn(b, fn, x, y, cur) ==
    CASE fn = "checker" -> (IF (x + y) % 2 = 0 THEN "dark" ELSE "light")
      [] fn = "holes"   -> (IF x % 2 = 0 THEN "unset" ELSE "dark")
      [] fn = "invert"  -> (IF cur THEN "light" ELSE "dark")
      [] fn = "timingH" -> (IF isDefined(b, x, 6) THEN "unset"
                            ELSE IF x % 2 = 0 THEN "dark" ELSE "light")
      [] fn = "timingV" -> (IF isDefined(b, 6, y) THEN "unset"
                            ELSE IF y % 2 = 0 THEN "dark" ELSE "light")

\* the callback invocations of one chunk: relative point and current value
chunkCalls(b, ch) ==
    [k \in 1..ch.n |->
        [x |-> ch.xPos + k - 1, y |-> ch.yPos,
         cur |-> ((ch.bitX + k - 1) % 32) \in RdWord(b.value, ch.wi)]]

\* rect with a callback, one chunk: defined[wi] |= defWord; value[wi] = valWord
rectChunk(b, fn, ch) ==
    LET calls == chunkCalls(b, ch)
        res(k) == ApplyFn(b, fn, calls[k].x, calls[k].y, calls[k].cur)
        bitOf(k) == (ch.bitX + k - 1) % 32
        defWord == {bitOf(k) : k \in {j \in 1..ch.n : res(j) # "unset"}}
        setBits == {bitOf(k) : k \in {j \in 1..ch.n : res(j) = "dark"}}
        clrBits == {bitOf(k) : k \in {j \in 1..ch.n : res(j) = "light"}}
    IN [defined |-> RdWord(b.defined, ch.wi) \cup defWord,
        value |-> (RdWord(b.value, ch.wi) \ clrBits) \cup setBits]

\* the region a call covers: origin wrapped, size clamped to what is left
region(b, c, size) ==
    LET p == xy(b, c)
        s == clampSize(size, sizeFrom(b, p))
    IN [x |-> p.x, y |-> p.y, width |-> s.width, height |-> s.height]

\* rect(c, size, fn): every chunk writes its own word, and a callback reads
\* only the cell it is called for
rect(b, c, size, fn) ==
    LET r == region(b, c, size)
        chunks == rectWords(b, r.x, r.y, r.width, r.height)
        drawn(wi) ==
            LET ks == {k \in 1..Len(chunks) : chunks[k].wi = wi}
            IN IF ks = {} THEN [defined |-> b.defined[wi], value |-> b.value[wi]]
               ELSE rectChunk(b, fn, chunks[CHOOSE k \in ks : TRUE])
    IN IF fn \in ConstFns
       THEN fillRectConst(b, r.x, r.y, r.width, r.height, fn)
       ELSE [b EXCEPT !.defined = [wi \in DOMAIN @ |-> drawn(wi).defined] @@ <<>>,
                      !.value = [wi \in DOMAIN @ |-> drawn(wi).value] @@ <<>>]

\* rectRead(c, size, fn): the sequence of (point, value) handed to fn; the
\* chunks of a row follow each other, so the cells come in row-major order
rectRead(b, c, size) ==
    LET r == region(b, c, size)
    IN IF r.width <= 0 \/ r.height <= 0 THEN <<>>
       ELSE AsSeq([k \in 1..(r.width * r.height) |->
                [x |-> (k - 1) % r.width, y |-> (k - 1) \div r.width,
                 cur |-> ((r.x + ((k - 1) % r.width)) % 32)
                            \in RdWord(b.value, wordIndex(b, r.x + ((k - 1) % r.width),
                                                         r.y + ((k - 1) \div r.width)))]])

\* what rect hands to a callback (the bitmap changes only bits already visited)
rectCalls(b, c, size, fn) == IF fn \in ConstFns THEN <<>> ELSE rectRead(b, c, size)

hLine(b, c, len, fn) == rect(b, c, [width |-> len, height |-> 1], fn)
vLine(b, c, len, fn) == rect(b, c, [width |-> 1, height |-> len], fn)

\* w >>> s and w << s on Uint32, 0 <= s <= 31
Shr(w, s) == {k - s : k \in {j \in w : j >= s}}
Shl(w, s) == {k + s : k \in {j \in w : j + s <= 31}}

\* embed(c, src), one span: the destination word, its mask and the value bits
\* taken from one or two source words
embedSpan(b, src, x, y, width, xPos, yPos) ==
    LET srcRow == yPos * src.words
        dstX == x + xPos
        dstBit == dstX % 32
        srcWord == wordIndex(src, xPos, yPos)
        srcBit == xPos % 32
        len == Min(32 - dstBit, width - xPos)
        w0 == RdWord(src.value, srcWord)
        w1 == IF srcBit # 0 /\ srcWord + 1 < srcRow + src.words
              THEN RdWord(src.value, srcWord + 1) ELSE {}
        sVal == IF srcBit # 0 THEN Shr(w0, srcBit) \cup Shl(w1, 32 - srcBit) ELSE w0
    IN [dstWord |-> wordIndex(b, dstX, y + yPos), dstMask |-> rangeMask(dstBit, len),
        valBits |-> Shl(sVal \cap rangeMask(0, len), dstBit)]

\* embed(c, src): copies value bits span by span and marks the span defined;
\* every span lies in a destination word of its own
embed(b, c, src) ==
    LET r == region(b, c, [height |-> src.height, width |-> src.width])
        first == ushr5(r.x)
        last == ushr5(r.x + r.width - 1)
        span(wi) == embedSpan(b, src, r.x, r.y, r.width,
                              Max(0, 32 * (wi % b.words) - r.x), (wi \div b.words) - r.y)
        hit(wi) == /\ (wi \div b.words) \in r.y..(r.y + r.height - 1)
                   /\ (wi % b.words) \in first..last
    IN IF r.width <= 0 \/ r.height <= 0 THEN b
       ELSE [b EXCEPT
               !.defined = [wi \in DOMAIN @ |->
                               IF hit(wi) THEN @[wi] \cup span(wi).dstMask ELSE @[wi]] @@ <<>>,
               !.value = [wi \in DOMAIN @ |->
                             IF hit(wi) THEN (@[wi] \ span(wi).dstMask) \cup span(wi).valBits
                             ELSE @[wi]] @@ <<>>]

\* rectSlice(c, size): a new bitmap; rectRead visits every cell of the region
\* once and rect.set(p.x, p.y, cur) is called for the defined ones, so word wi
\* of the result collects the bits of the calls that fall into it
rectSlice(b, c, size) ==
    LET r == region(b, c, size)
        out == NewBitmap(r.height, r.width)
        row(wi) == wi \div out.words
        cols(wi) == (32 * (wi % out.words))..Min(32 * (wi % out.words) + 31, r.width - 1)
        written(wi) == {x \in cols(wi) : isDefined(b, r.x + x, r.y + row(wi))}
    IN [out EXCEPT
          !.defined = [wi \in DOMAIN @ |-> {x % 32 : x \in written(wi)}] @@ <<>>,
          !.value = [wi \in DOMAIN @ |->
                        {x % 32 : x \in {p \in written(wi) : get(b, r.x + p, r.y + row(wi))}}]
                    @@ <<>>]

\* border(border, value): a larger bitmap filled with value, the original embedded
border(b, n, value) ==
    LET out == NewBitmap(b.height + 2 * n, b.width + 2 * n)
        filled == rect(out, [x |-> 0, y |-> 0],
                       [width |-> Infinity, height |-> Infinity], value)
    IN embed(filled, [x |-> n, y |-> n], b)

\* negate(): value = ~value, defined = 0xffffffff, for every word
negate(b) ==
    [b EXCEPT !.value = [i \in DOMAIN @ |-> AllBits \ @[i]],
              !.defined = [i \in DOMAIN @ |-> AllBits]]

(***************************************************************************)
(* The Bitmap machine: a bitmap is constructed, then public methods are    *)
(* called on it.  pre, op and ret record the last call.                    *)
(***************************************************************************)
WideWidth == 66      \* a row of three words: partial, full, partial spans
WideDims == {[height |-> 2, width |-> 32], [height |-> 2, width |-> 33],
             [height |-> 1, width |-> WideWidth]}
SmallDims == {[height |-> h, width |-> w] : h \in 1..MaxSmallW, w \in 1..MaxSmallW}

\* constructor data: every third cell unset, dark and light alternating
MixedData(height, width) ==
    [y \in 1..height |-> [x \in 1..width |->
        CASE (x + 2 * y) % 3 = 0 -> "unset"
          [] (x + 2 * y) % 3 = 1 -> "dark"
          [] OTHER -> "light"]]

InitBitmaps ==
    {NewBitmap(d.height, d.width) : d \in SmallDims}
    \cup {BitmapFromData(d.height, d.width, MixedData(d.height, d.width)) :
            d \in SmallDims \cup WideDims}

NoBitmap == NewBitmap(0, 0)
NoOp == [name |-> "new", x |-> 0, y |-> 0, width |-> 0, height |-> 0,
         fn |-> "unset", src |-> NoBitmap]
NoRet == [kind |-> "none", val |-> FALSE, bitmap |-> NoBitmap, calls |-> <<>>,
          point |-> [x |-> 0, y |-> 0], size |-> [width |-> 0, height |-> 0],
          err |-> "", bytes |-> <<>>, count |-> 0]
\* undefined, for an option, a version or a mask that is a number when present
undefined == -1

NoOpts == [ecc |-> "undefined", encoding |-> "undefined", version |-> undefined,
           mask |-> undefined, border |-> undefined, scale |-> undefined]
NoDec == [err |-> "", stage |-> "", width |-> 0, height |-> 0, cropToSquare |-> FALSE]
NoQR == [pc |-> "idle", text |-> <<>>, opts |-> NoOpts, ecc |-> "", encoding |-> "",
         i |-> 0, ver |-> undefined, data |-> <<>>, err |-> "", at |-> "",
         mask |-> 0, best |-> [best |-> undefined, bestScore |-> Infinity],
         scores |-> <<>>, maskIdx |-> undefined, out |-> <<>>, dec |-> NoDec]
NoRS == [phase |-> "idle", k |-> 0, data |-> <<>>, word |-> <<>>, recv |-> <<>>,
         flipped |-> {}, out |-> [err |-> "", res |-> <<>>]]

Call(name, x, y, width, height, fn, src) ==
    [name |-> name, x |-> x, y |-> y, width |-> width, height |-> height,
     fn |-> fn, src |-> src]

\* arguments the calls are tried with
Origins(b) ==
    {[x |-> 0, y |-> 0], [x |-> 1, y |-> 0], [x |-> -1, y |-> -1], [x |-> 1, y |-> 1]}
    \cup (IF b.width > 32 THEN {[x |-> 31, y |-> 0], [x |-> 32, y |-> -1]} ELSE {})
Sizes(b) ==
    {[width |-> 0, height |-> 1], [width |-> 1, height |-> 1],
     [width |-> 2, height |-> Infinity], [width |-> Infinity, height |-> 1],
     [width |-> Infinity, height |-> Infinity]}
    \cup (IF b.width > 32 THEN {[width |-> 33, height |-> 2]} ELSE {})
Probes(b) ==
    {[x |-> 0, y |-> 0], [x |-> b.width - 1, y |-> b.height - 1],
     [x |-> b.width, y |-> 0], [x |-> -1, y |-> 0], [x |-> 0, y |-> b.height],
     [x |-> 0, y |-> -1], [x |-> 32, y |-> 0]}
EmbedSources ==
    {NewBitmap(1, 1),
     BitmapFromData(2, 2, MixedData(2, 2)),
     BitmapFromData(1, 34, MixedData(1, 34))}

Init ==
    /\ bm \in InitBitmaps
    /\ pre = bm
    /\ op = NoOp
    /\ ret = NoRet
    /\ steps = 0
    /\ rs = NoRS
    /\ qr = NoQR

\* the calls that hand their Point argument to xy
RegionCalls == {"rect", "hLine", "vLine", "rectRead", "rectSlice", "embed", "embedSlice"}

\* the caller's Point object after the call: xy assigns the wrapped coordinates
\* to the object it is given (c.x = mod(c.x, width); c.y = mod(c.y, height))
pointAfter(b, call) ==
    IF call.name \in RegionCalls THEN xy(b, [x |-> call.x, y |-> call.y])
    ELSE [x |-> call.x, y |-> call.y]

\* the caller's Size object after the call: Bitmap.size clamps into a new object
sizeAfter(b, call) == [width |-> call.width, height |-> call.height]

Mutate(next, call, result) ==
    /\ steps < MaxOps
    /\ pre' = bm
    /\ bm' = next
    /\ op' = call
    /\ ret' = [result EXCEPT !.point = pointAfter(bm, call), !.size = sizeAfter(bm, call)]
    /\ steps' = steps + 1
    /\ UNCHANGED <<rs, qr>>

Set ==
    \E x \in {0, bm.width - 1}, y \in {0, bm.height - 1}, v \in DrawValue :
        Mutate(set(bm, x, y, v), Call("set", x, y, 1, 1, v, NoBitmap), NoRet)

Get ==
    \E p \in Probes(bm) :
        Mutate(bm, Call("get", p.x, p.y, 1, 1, "unset", NoBitmap),
               [NoRet EXCEPT !.kind = "bool", !.val = get(bm, p.x, p.y)])

Point ==
    \E p \in Probes(bm) :
        Mutate(bm, Call("point", p.x, p.y, 1, 1, "unset", NoBitmap),
               [NoRet EXCEPT !.kind = "bool", !.val = point(bm, p)])

IsDefined ==
    \E p \in Probes(bm) :
        Mutate(bm, Call("isDefined", p.x, p.y, 1, 1, "unset", NoBitmap),
               [NoRet EXCEPT !.kind = "bool", !.val = isDefined(bm, p.x, p.y)])

Rect ==
    \E c \in Origins(bm), size \in Sizes(bm), fn \in {"dark", "unset", "checker", "holes"} :
        Mutate(rect(bm, c, size, fn),
               Call("rect", c.x, c.y, size.width, size.height, fn, NoBitmap),
               [NoRet EXCEPT !.kind = "calls", !.calls = rectCalls(bm, c, size, fn)])

HLine ==
    \E c \in Origins(bm), len \in {1, Infinity}, fn \in {"light", "invert"} :
        Mutate(hLine(bm, c, len, fn), Call("hLine", c.x, c.y, len, 1, fn, NoBitmap),
               [NoRet EXCEPT !.kind = "calls",
                             !.calls = rectCalls(bm, c, [width |-> len, height |-> 1], fn)])

VLine ==
    \E c \in Origins(bm), len \in {1, Infinity}, fn \in {"light", "invert"} :
        Mutate(vLine(bm, c, len, fn), Call("vLine", c.x, c.y, 1, len, fn, NoBitmap),
               [NoRet EXCEPT !.kind = "calls",
                             !.calls = rectCalls(bm, c, [width |-> 1, height |-> len], fn)])

RectRead ==
    \E c \in Origins(bm), size \in Sizes(bm) :
        Mutate(bm, Call("rectRead", c.x, c.y, size.width, size.height, "unset", NoBitmap),
               [NoRet EXCEPT !.kind = "calls", !.calls = rectRead(bm, c, size)])

RectSlice ==
    \E c \in Origins(bm), size \in Sizes(bm) :
        Mutate(bm, Call("rectSlice", c.x, c.y, size.width, size.height, "unset", NoBitmap),
               [NoRet EXCEPT !.kind = "bitmap", !.bitmap = rectSlice(bm, c, size)])

Embed ==
    \E c \in Origins(bm), src \in EmbedSources :
        Mutate(embed(bm, c, src),
               Call("embed", c.x, c.y, src.width, src.height, "unset", src), NoRet)

\* m.embed(o, m.rectSlice(o, s))
EmbedSlice ==
    \E c \in Origins(bm), size \in Sizes(bm) :
        LET src == rectSlice(bm, c, size)
        IN Mutate(embed(bm, c, src),
                  Call("embedSlice", c.x, c.y, size.width, size.height, "unset", src), NoRet)

Border ==
    \E n \in 0..2, v \in DrawValue :
        Mutate(bm, Call("border", n, n, 0, 0, v, NoBitmap),
               [NoRet EXCEPT !.kind = "bitmap", !.bitmap = border(bm, n, v)])

Negate ==
    Mutate(negate(bm), Call("negate", 0, 0, 0, 0, "unset", NoBitmap), NoRet)

Next ==
    \/ Set \/ Get \/ Point \/ IsDefined \/ Rect \/ HLine \/ VLine \/ RectRead
    \/ RectSlice \/ Embed \/ EmbedSlice \/ Border \/ Negate

SpecBitmap == Init /\ [][Next]_vars

(***************************************************************************)
(* Properties of the Bitmap machine.  The region of the last call is       *)
(* restated here from the contract: the origin wraps modulo the            *)
(* dimensions, the size is clamped to what lies between the wrapped origin *)
(* and the far edges.                                                      *)
(***************************************************************************)
DrawCalls == {"rect", "hLine", "vLine"}
EmbedCalls == {"embed", "embedSlice"}

ReqWidth == IF op.name \in EmbedCalls THEN op.src.width ELSE op.width
ReqHeight == IF op.name \in EmbedCalls THEN op.src.height ELSE op.height
X0 == op.x % pre.width
Y0 == op.y % pre.height
RW == Min(ReqWidth, pre.width - X0)
RH == Min(ReqHeight, pre.height - Y0)

InRegion(x, y) == X0 <= x /\ x < X0 + RW /\ Y0 <= y /\ y < Y0 + RH
SameCell(a, b, x, y) == isDefined(a, x, y) = isDefined(b, x, y) /\ get(a, x, y) = get(b, x, y)

\* the bits of word wi that lie beyond column width-1
PadBits(b, wi) ==
    IF wi % b.words = b.words - 1
    THEN {k \in AllBits : (b.words - 1) * 32 + k >= b.width} ELSE {}

\* the cells of the region in row-major order, with the value bit before the call
ExpectedCalls ==
    [k \in 1..(RW * RH) |->
        [x |-> (k - 1) % RW, y |-> (k - 1) \div RW,
         cur |-> get(pre, X0 + ((k - 1) % RW), Y0 + ((k - 1) \div RW))]]

\* C6: embed changes the destination only where the source cell is defined;
\* an unset source cell leaves the destination cell unchanged on both planes,
\* so embedding rectSlice(m, o, s) back into m at o leaves m unchanged.
C6_EmbedSkipsUnset ==
    op.name \in EmbedCalls =>
        /\ \A i \in 0..(RW - 1), j \in 0..(RH - 1) :
              Cell(op.src, i, j) = "unset" => SameCell(pre, bm, X0 + i, Y0 + j)
        /\ op.name = "embedSlice" =>
              \A x \in 0..(bm.width - 1), y \in 0..(bm.height - 1) : SameCell(pre, bm, x, y)

\* C7: border(n, v) returns a bitmap of (H+2n) x (W+2n) whose frame is v and
\* whose inner region equals the source cell for cell, unset cells included;
\* the source is unchanged.
C7_BorderKeepsInner ==
    op.name = "border" =>
        /\ ret.bitmap.height = pre.height + 2 * op.x
        /\ ret.bitmap.width = pre.width + 2 * op.x
        /\ bm = pre
        /\ \A x \in 0..(ret.bitmap.width - 1), y \in 0..(ret.bitmap.height - 1) :
              IF isInside(pre, x - op.x, y - op.x)
              THEN Cell(ret.bitmap, x, y) = Cell(pre, x - op.x, y - op.x)
              ELSE Cell(ret.bitmap, x, y) = op.fn

\* C8: get, isDefined and point called with coordinates outside the bitmap
\* fail with an out-of-bounds error and never return a cell's or padding state.
C8_OutOfRangeThrows ==
    (op.name \in {"get", "isDefined", "point"} /\ ~isInside(pre, op.x, op.y))
        => ret.kind = "error"

\* C9: a cell that was defined before a call is defined after it, whatever the
\* call (set, rect, hLine, vLine, embed, negate, ...); set with unset, rect with
\* the constant unset and a rect callback returning unset leave both planes of
\* the cell unchanged.
C9_DefinedNeverUnset ==
    /\ \A x \in 0..(bm.width - 1), y \in 0..(bm.height - 1) :
          isDefined(pre, x, y) => isDefined(bm, x, y)
    /\ (op.name \in DrawCalls \cup {"set"} /\ op.fn = "unset")
          => (bm.defined = pre.defined /\ bm.value = pre.value)
    /\ (op.name \in DrawCalls /\ op.fn \in CallbackFns)
          => \A i \in 1..Len(ret.calls) :
                ApplyFn(pre, op.fn, ret.calls[i].x, ret.calls[i].y, ret.calls[i].cur) = "unset"
                    => SameCell(pre, bm, X0 + ret.calls[i].x, Y0 + ret.calls[i].y)

\* a callback returned unset for a dark cell, which stayed dark, and drew others
C9_Witness ==
    /\ op.name = "rect" /\ op.fn = "holes" /\ bm # pre
    /\ \E i \in 1..Len(ret.calls) :
          /\ ApplyFn(pre, op.fn, ret.calls[i].x, ret.calls[i].y, ret.calls[i].cur) = "unset"
          /\ Cell(pre, X0 + ret.calls[i].x, Y0 + ret.calls[i].y) = "dark"
          /\ Cell(bm, X0 + ret.calls[i].x, Y0 + ret.calls[i].y) = "dark"

\* C10: rect, rectRead, rectSlice and embed touch exactly the clamped
\* rectangle: cells outside it and the padding bits beyond column W-1 keep
\* both planes, callbacks see exactly the cells of the rectangle, and the
\* cells inside are drawn, copied or sliced.
C10_ExactlyClampedRect ==
    op.name \in RegionCalls =>
        /\ \A x \in 0..(bm.width - 1), y \in 0..(bm.height - 1) :
              ~InRegion(x, y) => SameCell(pre, bm, x, y)
        /\ \A wi \in DOMAIN bm.defined :
              /\ bm.defined[wi] \cap PadBits(bm, wi) = pre.defined[wi] \cap PadBits(pre, wi)
              /\ bm.value[wi] \cap PadBits(bm, wi) = pre.value[wi] \cap PadBits(pre, wi)
        /\ (op.name = "rectRead" \/ (op.name \in DrawCalls /\ op.fn \in CallbackFns))
              => ret.calls = ExpectedCalls
        /\ (op.name \in DrawCalls /\ op.fn \in {"dark", "light"})
              => \A x \in 0..(bm.width - 1), y \in 0..(bm.height - 1) :
                    InRegion(x, y) => Cell(bm, x, y) = op.fn
        /\ (op.name \in DrawCalls /\ op.fn \in CallbackFns)
              => \A x \in 0..(bm.width - 1), y \in 0..(bm.height - 1) :
                    InRegion(x, y) =>
                        LET res == ApplyFn(pre, op.fn, x - X0, y - Y0, get(pre, x, y))
                        IN IF res = "unset" THEN SameCell(pre, bm, x, y)
                           ELSE Cell(bm, x, y) = res
        /\ op.name = "rectSlice"
              => /\ bm = pre
                 /\ ret.bitmap.width = RW /\ ret.bitmap.height = RH
                 /\ \A i \in 0..(RW - 1), j \in 0..(RH - 1) :
                       Cell(ret.bitmap, i, j) = Cell(pre, X0 + i, Y0 + j)
                 /\ \A wi \in DOMAIN ret.bitmap.defined :
                       /\ ret.bitmap.defined[wi] \cap PadBits(ret.bitmap, wi) = {}
                       /\ ret.bitmap.value[wi] \cap PadBits(ret.bitmap, wi) = {}
        /\ op.name \in EmbedCalls
              => \A i \in 0..(RW - 1), j \in 0..(RH - 1) :
                    get(bm, X0 + i, Y0 + j) = get(op.src, i, j)

\* a rect from a negative origin with an Infinity size on a row that ends one
\* bit into its second word, after negate() has set the padding bits
C10_Witness ==
    /\ op.name = "rect" /\ op.x = -1 /\ op.width = Infinity /\ op.fn = "checker"
    /\ bm.width = 33 /\ bm # pre
    /\ \E wi \in DOMAIN pre.defined : pre.defined[wi] \cap PadBits(pre, wi) # {}
(***************************************************************************)
(* GF(256) with the polynomial 0x11d.  Bytes are the integers 0..255; a    *)
(* polynomial is the sequence of its coefficients, highest degree first.   *)
(***************************************************************************)
Bytes == 0..255

RECURSIVE XorBits(_, _, _)
XorBits(a, b, n) ==
    IF n = 0 THEN 0
    ELSE ((a + b) % 2) + 2 * XorBits(a \div 2, b \div 2, n - 1)

NibbleXor == [a \in 0..15 |-> [b \in 0..15 |-> XorBits(a, b, 4)] @@ <<>>] @@ <<>>

\* GF.add: x ^ y on bytes
GF_add(x, y) == 16 * NibbleXor[x \div 16][y \div 16] + NibbleXor[x % 16][y % 16]

\* one step of the table loop: x <<= 1; if (x & 0x100) x ^= 0x11d
GF_step(x) == IF 2 * x >= 256 THEN GF_add(2 * x - 256, 29) ELSE 2 * x

\* n steps of the loop from x, split in halves
GF_steps[x \in Bytes, n \in 0..255] ==
    IF n = 0 THEN x
    ELSE IF n = 1 THEN GF_step(x)
    ELSE GF_steps[GF_steps[x, n \div 2], n - (n \div 2)]

\* GF.tables: exp[i] = x; log[x] = i, for i = 0..255 and x starting at 1
GF_expAt(i) == GF_steps[1, i]

GF_exp == [i \in 0..255 |-> GF_expAt(i)] @@ <<>>

\* log[x] is the last i written for x (log[1] = 255), log[0] stays 0
GF_logTable ==
    [x \in Bytes |->
        IF \E i \in 0..255 : GF_exp[i] = x
        THEN CHOOSE i \in 0..255 :
                GF_exp[i] = x /\ \A j \in 0..255 : GF_exp[j] = x => j <= i
        ELSE 0] @@ <<>>

GF_log(x) == GF_logTable[x] % 255

GF_mul(x, y) ==
    IF x = 0 \/ y = 0 THEN 0 ELSE GF_exp[(GF_logTable[x] + GF_logTable[y]) % 255]

GF_pow(x, e) == GF_exp[(GF_logTable[x] * e) % 255]

\* x # 0
GF_inv(x) == GF_exp[255 - GF_logTable[x]]

\* the index (from 0) of the first coefficient kept by GF.polynomial:
\* for (; i < poly.length - 1 && poly[i] == 0; i++);
GF_firstKept(poly) ==
    CHOOSE i \in 0..(Len(poly) - 1) :
        /\ i = Len(poly) - 1 \/ poly[i + 1] # 0
        /\ \A j \in 0..(i - 1) : poly[j + 1] = 0

GF_polynomial(poly) ==
    IF poly[1] # 0 THEN poly ELSE SubSeq(poly, GF_firstKept(poly) + 1, Len(poly))

GF_monomial(degree, coefficient) ==
    IF coefficient = 0 THEN <<0>>
    ELSE GF_polynomial(AsSeq([i \in 1..(degree + 1) |-> IF i = 1 THEN coefficient ELSE 0]))

GF_degree(a) == Len(a) - 1

GF_coefficient(a, degree) == a[GF_degree(a) - degree + 1]

\* xor of f[i] for i in lo..hi, the range split in halves
GF_sum[f \in Seq(Bytes), lo \in Nat, hi \in Nat] ==
    IF lo > hi THEN 0
    ELSE IF lo = hi THEN f[lo]
    ELSE GF_add(GF_sum[f, lo, (lo + hi) \div 2], GF_sum[f, ((lo + hi) \div 2) + 1, hi])

GF_mulPoly(a, b) ==
    IF a[1] = 0 \/ b[1] = 0 THEN <<0>>
    ELSE GF_polynomial(AsSeq(
            [k \in 1..(Len(a) + Len(b) - 1) |->
                GF_sum[AsSeq([i \in 1..Len(a) |->
                           IF k - i + 1 \in 1..Len(b) THEN GF_mul(a[i], b[k - i + 1]) ELSE 0]),
                       1, Len(a)]]))

GF_mulPolyScalar(a, scalar) ==
    IF scalar = 0 THEN <<0>>
    ELSE IF scalar = 1 THEN a
    ELSE GF_polynomial(AsSeq([i \in 1..Len(a) |-> GF_mul(a[i], scalar)]))

GF_mulPolyMonomial(a, degree, coefficient) ==
    IF coefficient = 0 THEN <<0>>
    ELSE GF_polynomial(AsSeq([i \in 1..(Len(a) + degree) |->
                           IF i <= Len(a) THEN GF_mul(a[i], coefficient) ELSE 0]))

GF_addPoly(a, b) ==
    IF a[1] = 0 THEN b
    ELSE IF b[1] = 0 THEN a
    ELSE LET smaller == IF Len(a) > Len(b) THEN b ELSE a
             larger == IF Len(a) > Len(b) THEN a ELSE b
             lengthDiff == Len(larger) - Len(smaller)
         IN GF_polynomial(AsSeq([i \in 1..Len(larger) |->
                              IF i <= lengthDiff THEN larger[i]
                              ELSE GF_add(smaller[i - lengthDiff], larger[i])]))

\* remainderPoly: step i of the outer loop on the working copy out (i from 0)
GF_remainderStep(out, divisor, i) ==
    LET elm == out[i + 1]
    IN IF elm = 0 THEN out
       ELSE AsSeq([p \in 1..Len(out) |->
                      IF p - i - 1 \in 1..(Len(divisor) - 1) /\ divisor[p - i] # 0
                      THEN GF_add(out[p], GF_mul(divisor[p - i], elm))
                      ELSE out[p]])

\* steps lo..hi of the outer loop, the range split in halves
GF_remainderSteps[out \in Seq(Bytes), divisor \in Seq(Bytes), lo \in Nat, hi \in Int] ==
    IF lo > hi THEN out
    ELSE IF lo = hi THEN GF_remainderStep(out, divisor, lo)
    ELSE GF_remainderSteps[GF_remainderSteps[out, divisor, lo, (lo + hi) \div 2],
                           divisor, ((lo + hi) \div 2) + 1, hi]

GF_remainderPoly(data, divisor) ==
    SubSeq(GF_remainderSteps[data, divisor, 0, Len(data) - Len(divisor)],
           Len(data) - Len(divisor) + 2, Len(data))

\* g = mulPoly(g, [1, pow(2, i)]) for i in lo..hi, the range split in halves
GF_divisorSteps[g \in Seq(Bytes), lo \in Nat, hi \in Int] ==
    IF lo > hi THEN g
    ELSE IF lo = hi THEN GF_mulPoly(g, <<1, GF_pow(2, lo)>>)
    ELSE GF_divisorSteps[GF_divisorSteps[g, lo, (lo + hi) \div 2], ((lo + hi) \div 2) + 1, hi]

GF_divisorPoly(degree) == GF_divisorSteps[<<1>>, 0, degree - 1]

\* res = add(mul(a, res), poly[i]) for i in lo..hi, the range split in halves
GF_horner[poly \in Seq(Bytes), a \in Bytes, res \in Bytes, lo \in Nat, hi \in Nat] ==
    IF lo > hi THEN res
    ELSE IF lo = hi THEN GF_add(GF_mul(a, res), poly[lo])
    ELSE GF_horner[poly, a, GF_horner[poly, a, res, lo, (lo + hi) \div 2],
                   ((lo + hi) \div 2) + 1, hi]

GF_evalPoly(poly, a) ==
    IF a = 0 THEN GF_coefficient(poly, 0) ELSE GF_horner[poly, a, poly[1], 2, Len(poly)]

\* the inner while of euclidian: long division of r by rLast, collecting q
RECURSIVE GF_divide(_, _, _, _)
GF_divide(r, q, rLast, dltInverse) ==
    IF GF_degree(r) >= GF_degree(rLast) /\ r[1] # 0
    THEN LET degreeDiff == GF_degree(r) - GF_degree(rLast)
             scale == GF_mul(r[1], dltInverse)
         IN GF_divide(GF_addPoly(r, GF_mulPolyMonomial(rLast, degreeDiff, scale)),
                      GF_addPoly(q, GF_monomial(degreeDiff, scale)),
                      rLast, dltInverse)
    ELSE [r |-> r, q |-> q]

\* the loop test of euclidian with > for >=
GF_euclidianGoesOnStrict(r, R) == 2 * GF_degree(r) > R

\* while (2 * GF.degree(r) >= R)
GF_euclidianGoesOn(r, R) == 2 * GF_degree(r) >= R

RECURSIVE GF_euclidianLoop(_, _, _, _, _)
GF_euclidianLoop(rLast0, r0, tLast0, t0, R) ==
    IF ~GF_euclidianGoesOn(r0, R)
    THEN LET sigmaTildeAtZero == GF_coefficient(t0, 0)
         IN IF sigmaTildeAtZero = 0
            THEN [err |-> "sigmaTilde(0) was zero", sigma |-> <<0>>, omega |-> <<0>>]
            ELSE [err |-> "",
                  sigma |-> GF_mulPolyScalar(t0, GF_inv(sigmaTildeAtZero)),
                  omega |-> GF_mulPolyScalar(r0, GF_inv(sigmaTildeAtZero))]
    ELSE IF r0[1] = 0
    THEN [err |-> "rLast[0] === 0", sigma |-> <<0>>, omega |-> <<0>>]
    ELSE LET divided(d) ==
                 IF GF_degree(d.r) >= GF_degree(r0)
                 THEN [err |-> "Division failed", sigma |-> <<0>>, omega |-> <<0>>]
                 ELSE GF_euclidianLoop(r0, d.r, t0,
                                       GF_addPoly(GF_mulPoly(d.q, t0), tLast0), R)
         IN divided(GF_divide(rLast0, <<0>>, r0, GF_inv(r0[1])))

GF_euclidian(a, b, R) ==
    IF GF_degree(a) < GF_degree(b)
    THEN GF_euclidianLoop(b, a, <<0>>, <<1>>, R)
    ELSE GF_euclidianLoop(a, b, <<0>>, <<1>>, R)

(***************************************************************************)
(* RS(eccWords)                                                            *)
(***************************************************************************)
RS_encode(eccWords, from) ==
    GF_remainderPoly(from \o AsSeq([i \in 1..eccWords |-> 0]), GF_divisorPoly(eccWords))

\* syndrome[syndrome.length - 1 - i] = evalPoly(poly, exp(i))
RS_syndrome(eccWords, to) ==
    AsSeq([j \in 1..eccWords |-> GF_evalPoly(GF_polynomial(to), GF_exp[eccWords - j])])

\* the elements of a set of numbers in increasing order
SortedSeq(S) ==
    AsSeq([e \in 1..Cardinality(S) |->
              CHOOSE x \in S : Cardinality({y \in S : y < x}) = e - 1])

\* locations[e++] = GF.inv(i) for the roots i = 1..255 of the locator in
\* increasing order; a polynomial of degree n has at most n roots
RS_locations(errorLocator) ==
    LET roots == SortedSeq({i \in 1..255 : GF_evalPoly(errorLocator, i) = 0})
    IN AsSeq([e \in 1..Len(roots) |-> GF_inv(roots[e])])

\* denominator = mul(denominator, add(1, mul(locations[j], xiInverse))), j # i
RS_denominator[locations \in Seq(Bytes), i \in Nat, j \in Nat, acc \in Bytes] ==
    IF j > Len(locations) THEN acc
    ELSE RS_denominator[locations, i, j + 1,
            IF i = j THEN acc
            ELSE GF_mul(acc, GF_add(1, GF_mul(locations[j], GF_inv(locations[i]))))]

RS_position(res, location) == Len(res) - 1 - GF_log(location)

RS_magnitude(locations, errorEvaluator, i) ==
    GF_mul(GF_evalPoly(errorEvaluator, GF_inv(locations[i])),
           GF_inv(RS_denominator[locations, i, 1, 1]))

\* the correction loop: the locations are distinct, so every position is
\* corrected at most once; a negative position or a zero denominator throws
RS_correct(res, locations, errorEvaluator) ==
    IF \E i \in 1..Len(locations) : RS_position(res, locations[i]) < 0
    THEN [err |-> "RS.decode: invalid error location", res |-> res]
    ELSE IF \E i \in 1..Len(locations) : RS_denominator[locations, i, 1, 1] = 0
    THEN [err |-> "GF.inverse: invalid arg=0", res |-> res]
    ELSE [err |-> "",
          res |-> AsSeq([p \in 1..Len(res) |->
                     IF \E i \in 1..Len(locations) : RS_position(res, locations[i]) = p - 1
                     THEN LET i == CHOOSE i \in 1..Len(locations) :
                                       RS_position(res, locations[i]) = p - 1
                          IN GF_add(res[p], RS_magnitude(locations, errorEvaluator, i))
                     ELSE res[p]])]

RS_decode(eccWords, to) ==
    LET located(e, locations) ==
            IF Len(locations) # GF_degree(e.sigma)
            THEN [err |-> "RS.decode: invalid errors number", res |-> to]
            ELSE RS_correct(to, locations, e.omega)
        solved(e) ==
            IF e.err # "" THEN [err |-> e.err, res |-> to]
            ELSE located(e, RS_locations(e.sigma))
        checked(syndrome) ==
            IF \A j \in 1..eccWords : syndrome[j] = 0 THEN [err |-> "", res |-> to]
            ELSE solved(GF_euclidian(GF_monomial(eccWords, 1), GF_polynomial(syndrome),
                                     eccWords))
    IN checked(RS_syndrome(eccWords, to))

(***************************************************************************)
(* The Reed-Solomon machine: a block is encoded with k ECC bytes, some     *)
(* positions of the codeword are replaced by other bytes, and the          *)
(* received word is decoded.                                               *)
(***************************************************************************)
RSMaxEcc == 4        \* ECC lengths 1..RSMaxEcc for the short blocks
RSMaxData == 2       \* short data blocks have 1..RSMaxData bytes
RSMaxFlips == 3      \* positions replaced per codeword
RSLongEcc == 6       \* ECC length of the long block
RSLongData == 10     \* data bytes of the long block

RSDataBytes == {0, 1, 255}
RSNoise == {0, 1, 255}

RSShortBlocks ==
    UNION {[1..n -> RSDataBytes] : n \in 1..RSMaxData}
RSLongBlock == [i \in 1..RSLongData |-> (37 * i + 11) % 256]

\* the positions of a codeword that may be replaced
RSPositions(word) ==
    IF Len(word) <= RSMaxEcc + RSMaxData THEN 1..Len(word)
    ELSE {1, 2, RSLongData, RSLongData + 1, Len(word)}

InitRS ==
    /\ bm = NoBitmap /\ pre = NoBitmap /\ op = NoOp /\ ret = NoRet /\ steps = 0
    /\ qr = NoQR
    /\ \E k \in 1..RSMaxEcc \cup {RSLongEcc} :
       \E d \in (IF k = RSLongEcc THEN {RSLongBlock} ELSE RSShortBlocks) :
          rs = [NoRS EXCEPT !.phase = "new", !.k = k, !.data = d]

\* word = data || RS(k).encode(data)
RSEncode ==
    /\ rs.phase = "new"
    /\ rs' = [rs EXCEPT !.phase = "sent",
                        !.word = rs.data \o RS_encode(rs.k, rs.data),
                        !.recv = rs.data \o RS_encode(rs.k, rs.data)]
    /\ UNCHANGED <<bm, pre, op, ret, steps, qr>>

\* one more position of the received word is replaced by another byte
RSFlip ==
    /\ rs.phase = "sent"
    /\ Cardinality(rs.flipped) < RSMaxFlips
    /\ \E pos \in RSPositions(rs.word), v \in RSNoise :
          /\ \A q \in rs.flipped : q < pos
          /\ v # rs.word[pos]
          /\ rs' = [rs EXCEPT !.recv[pos] = v, !.flipped = @ \cup {pos}]
    /\ UNCHANGED <<bm, pre, op, ret, steps, qr>>

\* out = RS(k).decode(recv), or the error it throws
RSDecode ==
    /\ rs.phase = "sent"
    /\ rs' = [rs EXCEPT !.phase = "decoded", !.out = RS_decode(rs.k, rs.recv)]
    /\ UNCHANGED <<bm, pre, op, ret, steps, qr>>

NextRS == RSEncode \/ RSFlip \/ RSDecode

SpecRS == InitRS /\ [][NextRS]_vars

\* C2: when at most floor(k/2) positions of data || RS(k).encode(data) were
\* replaced by other bytes, RS(k).decode returns data || RS(k).encode(data).
C2_CorrectsHalfK ==
    (rs.phase = "decoded" /\ 2 * Cardinality(rs.flipped) <= rs.k)
        => rs.out = [err |-> "", res |-> rs.word]

\* three replaced bytes, the first and the last of the word among them, were
\* corrected with six ECC bytes
C2_Witness ==
    /\ rs.phase = "decoded" /\ rs.k = RSLongEcc
    /\ Cardinality(rs.flipped) = 3 /\ {1, Len(rs.word)} \subseteq rs.flipped
    /\ rs.recv # rs.word
    /\ rs.out = [err |-> "", res |-> rs.word]

(***************************************************************************)
(* Tables of the encoder.  A text is a sequence of character codes below   *)
(* 128, which UTF-8 encodes as themselves; a bit string is a sequence of   *)
(* 0 and 1.                                                                *)
(***************************************************************************)
ECMode == <<"low", "medium", "quartile", "high">>

BYTES ==
    <<26, 44, 70, 100, 134, 172, 196, 242, 292, 346, 404, 466, 532, 581, 655, 733, 815,
      901, 991, 1085, 1156, 1258, 1364, 1474, 1588, 1706, 1828, 1921, 2051, 2185, 2323,
      2465, 2611, 2761, 2876, 3034, 3196, 3362, 3532, 3706>>

WORDS_PER_BLOCK ==
    [low |-> <<7, 10, 15, 20, 26, 18, 20, 24, 30, 18, 20, 24, 26, 30, 22, 24, 28, 30, 28,
               28, 28, 28, 30, 30, 26, 28, 30, 30, 30, 30, 30, 30, 30, 30, 30, 30, 30, 30,
               30, 30>>,
     medium |-> <<10, 16, 26, 18, 24, 16, 18, 22, 22, 26, 30, 22, 22, 24, 24, 28, 28, 26,
                  26, 26, 26, 28, 28, 28, 28, 28, 28, 28, 28, 28, 28, 28, 28, 28, 28, 28,
                  28, 28, 28, 28>>,
     quartile |-> <<13, 22, 18, 26, 18, 24, 18, 22, 20, 24, 28, 26, 24, 20, 30, 24, 28, 28,
                    26, 30, 28, 30, 30, 30, 30, 28, 30, 30, 30, 30, 30, 30, 30, 30, 30, 30,
                    30, 30, 30, 30>>,
     high |-> <<17, 28, 22, 16, 22, 28, 26, 26, 24, 28, 24, 28, 22, 24, 24, 30, 28, 28, 26,
                28, 30, 24, 30, 30, 30, 30, 30, 30, 30, 30, 30, 30, 30, 30, 30, 30, 30, 30,
                30, 30>>]

ECC_BLOCKS ==
    [low |-> <<1, 1, 1, 1, 1, 2, 2, 2, 2, 4, 4, 4, 4, 4, 6, 6, 6, 6, 7, 8, 8, 9, 9, 10, 12,
               12, 12, 13, 14, 15, 16, 17, 18, 19, 19, 20, 21, 22, 24, 25>>,
     medium |-> <<1, 1, 1, 2, 2, 4, 4, 4, 5, 5, 5, 8, 9, 9, 10, 10, 11, 13, 14, 16, 17, 17,
                  18, 20, 21, 23, 25, 26, 28, 29, 31, 33, 35, 37, 38, 40, 43, 45, 47, 49>>,
     quartile |-> <<1, 1, 2, 2, 4, 4, 6, 6, 8, 8, 8, 10, 12, 16, 12, 17, 16, 18, 21, 20, 23,
                    23, 25, 27, 29, 34, 34, 35, 38, 40, 43, 45, 48, 51, 53, 56, 59, 62, 65,
                    68>>,
     high |-> <<1, 1, 2, 4, 4, 4, 5, 6, 8, 8, 11, 11, 16, 16, 18, 16, 19, 21, 25, 25, 25,
                34, 30, 32, 35, 37, 40, 42, 45, 48, 51, 54, 57, 60, 63, 66, 70, 74, 77,
                81>>]

\* info.size.encode
info_size(ver) == 21 + 4 * (ver - 1)

\* info.lengthBits with 8 bits for the bytes of versions 10 to 26
info_lengthBitsShortByte(ver, type) ==
    LET table == [numeric |-> <<10, 12, 14>>, alphanumeric |-> <<9, 11, 13>>,
                  byte |-> <<8, 8, 16>>, kanji |-> <<8, 10, 12>>, eci |-> <<0, 0, 0>>]
    IN table[type][((ver + 7) \div 17) + 1]

\* info.lengthBits: table[type][sizeType(ver)], sizeType = floor((ver + 7) / 17)
info_lengthBits(ver, type) ==
    LET table == [numeric |-> <<10, 12, 14>>, alphanumeric |-> <<9, 11, 13>>,
                  byte |-> <<8, 16, 16>>, kanji |-> <<8, 10, 12>>, eci |-> <<0, 0, 0>>]
    IN table[type][((ver + 7) \div 17) + 1]

info_modeBits ==
    [numeric |-> <<0, 0, 0, 1>>, alphanumeric |-> <<0, 0, 1, 0>>, byte |-> <<0, 1, 0, 0>>,
     kanji |-> <<1, 0, 0, 0>>, eci |-> <<0, 1, 1, 1>>]

\* info.capacity with shortBlocks = bytes % numBlocks
info_capacityLongBlocks(ver, ecc) ==
    LET bytes == BYTES[ver]
        words == WORDS_PER_BLOCK[ecc][ver]
        numBlocks == ECC_BLOCKS[ecc][ver]
        blockLen == (bytes \div numBlocks) - words
        shortBlocks == bytes % numBlocks
    IN [words |-> words, numBlocks |-> numBlocks, shortBlocks |-> shortBlocks,
        blockLen |-> blockLen, capacity |-> (bytes - words * numBlocks) * 8,
        total |-> (words + blockLen) * numBlocks + numBlocks - shortBlocks]

\* info.capacity
info_capacity(ver, ecc) ==
    LET bytes == BYTES[ver]
        words == WORDS_PER_BLOCK[ecc][ver]
        numBlocks == ECC_BLOCKS[ecc][ver]
        blockLen == (bytes \div numBlocks) - words
        shortBlocks == numBlocks - (bytes % numBlocks)
    IN [words |-> words, numBlocks |-> numBlocks, shortBlocks |-> shortBlocks,
        blockLen |-> blockLen, capacity |-> (bytes - words * numBlocks) * 8,
        total |-> (words + blockLen) * numBlocks + numBlocks - shortBlocks]

\* '0123456789' and '0123456789ABCDEFGHIJKLMNOPQRSTUVWXYZ $%*+-./:'
NumericChars == AsSeq([i \in 1..10 |-> 47 + i])
AlphanumericChars ==
    NumericChars \o AsSeq([i \in 1..26 |-> 64 + i]) \o <<32, 36, 37, 42, 43, 45, 46, 47, 58>>

\* alphabet(chars): indexOf for every character code, -1 when absent
alphabet(chars) ==
    [c \in 0..127 |-> IF \E k \in 1..Len(chars) : chars[k] = c
                      THEN (CHOOSE k \in 1..Len(chars) : chars[k] = c) - 1 ELSE -1] @@ <<>>

info_alphabet == [numeric |-> alphabet(NumericChars), alphanumerc |-> alphabet(AlphanumericChars)]

has(indexOf, char) == indexOf[char] # -1

\* alphabet.decode: the index of every letter, or the error for an unknown one
alphabetDecode(indexOf, input) ==
    IF \E i \in 1..Len(input) : ~has(indexOf, input[i])
    THEN [err |-> "Unknown letter", digits |-> <<>>]
    ELSE [err |-> "", digits |-> AsSeq([i \in 1..Len(input) |-> indexOf[input[i]]])]

\* detectType: numeric, unless a letter is not a digit; byte at the first
\* letter outside the alphanumeric alphabet
detectType(str) ==
    IF \E i \in 1..Len(str) : ~has(info_alphabet.alphanumerc, str[i]) THEN "byte"
    ELSE IF \E i \in 1..Len(str) : ~has(info_alphabet.numeric, str[i]) THEN "alphanumeric"
    ELSE "numeric"

\* bin(dec, pad): dec.toString(2).padStart(pad, '0')
bin(dec, pad) ==
    LET digits == CHOOSE n \in 1..30 : dec < 2^n /\ (n = 1 \/ dec >= 2^(n - 1))
        len == Max(pad, digits)
    IN AsSeq([i \in 1..len |-> (dec \div 2^(len - i)) % 2])

\* bit k (1 = first) of bin(dec, pad) when dec < 2^pad
binAt(dec, pad, k) == (dec \div 2^(pad - k)) % 2

\* interleaveBytes(blocks): the i-th bytes of the blocks that have one, for
\* i = 0, 1, ...
interleaveBytes(blocks) ==
    LET maxLen == IF Len(blocks) = 0 THEN 0
                  ELSE CHOOSE m \in {Len(blocks[j]) : j \in 1..Len(blocks)} :
                          \A j \in 1..Len(blocks) : Len(blocks[j]) <= m
        column(i) ==
            LET js == SortedSeq({j \in 1..Len(blocks) : i <= Len(blocks[j])})
            IN AsSeq([k \in 1..Len(js) |-> blocks[js[k]][i]])
        columns[lo \in Nat, hi \in Nat] ==
            IF lo > hi THEN <<>>
            ELSE IF lo = hi THEN column(lo)
            ELSE columns[lo, (lo + hi) \div 2] \o columns[((lo + hi) \div 2) + 1, hi]
    IN columns[1, maxLen]

\* interleave(ver, ecc).encode(bytes): the data blocks, then their ECC blocks
\* every block given the length of a short one
interleave_lenShort(blockLen, shortBlocks, i) == blockLen

\* const len = blockLen + (i < shortBlocks ? 0 : 1)
interleave_len(blockLen, shortBlocks, i) == blockLen + (IF i < shortBlocks THEN 0 ELSE 1)

interleave_encode(ver, ecc, bytes) ==
    LET len(c, i) == interleave_len(c.blockLen, c.shortBlocks, i - 1)
        start(c, i) == (i - 1) * c.blockLen + Max(0, i - 1 - c.shortBlocks)
        slice(c, i, from) == SubSeq(bytes, from + 1, from + len(c, i))
        coded(c, blocks) ==
            interleaveBytes(blocks)
            \o interleaveBytes(AsSeq([i \in 1..c.numBlocks |-> RS_encode(c.words, blocks[i])]))
        split(c) == coded(c, AsSeq([i \in 1..c.numBlocks |-> slice(c, i, start(c, i))]))
    IN split(info_capacity(ver, ecc))

\* const isShort = j < shortBlocks
isShort(j, shortBlocks) == j < shortBlocks

\* interleave(ver, ecc).decode(data): the codeword of every block put together
\* from the columns (data bytes of all blocks, the last byte of the long
\* blocks, ECC bytes of all blocks), RS-decoded and cut to its data bytes
interleave_decode(ver, ecc, data) ==
    LET byteOf(c, j, i) ==
            IF i < c.blockLen THEN data[i * c.numBlocks + j + 1]
            ELSE IF ~isShort(j, c.shortBlocks) /\ i = c.blockLen
            THEN data[c.blockLen * c.numBlocks + (j - c.shortBlocks) + 1]
            ELSE data[c.blockLen * c.numBlocks + (c.numBlocks - c.shortBlocks)
                      + (i - c.blockLen - (IF isShort(j, c.shortBlocks) THEN 0 ELSE 1)) * c.numBlocks
                      + j + 1]
        block(c, j) ==
            AsSeq([i \in 1..(c.words + c.blockLen + (IF isShort(j, c.shortBlocks) THEN 0 ELSE 1)) |->
                      byteOf(c, j, i - 1)])
        joined(c, decoded) ==
            LET parts[lo \in Nat, hi \in Nat] ==
                    IF lo > hi THEN <<>>
                    ELSE IF lo = hi
                    THEN SubSeq(decoded[lo].res, 1, Len(decoded[lo].res) - c.words)
                    ELSE parts[lo, (lo + hi) \div 2] \o parts[((lo + hi) \div 2) + 1, hi]
            IN IF \E j \in 1..c.numBlocks : decoded[j].err # ""
               THEN [err |-> decoded[CHOOSE j \in 1..c.numBlocks :
                                 /\ decoded[j].err # ""
                                 /\ \A k \in 1..(j - 1) : decoded[k].err = ""].err,
                     res |-> <<>>]
               ELSE [err |-> "", res |-> parts[1, c.numBlocks]]
        blocks(c) ==
            joined(c, AsSeq([j \in 1..c.numBlocks |-> RS_decode(c.words, block(c, j - 1))]))
    IN IF Len(data) # info_capacity(ver, ecc).total
       THEN [err |-> "interleave.decode: len(data)", res |-> <<>>]
       ELSE blocks(info_capacity(ver, ecc))

\* the payload bits of encode(): groups of three digits in 10 bits, pairs of
\* letters in 11 bits, bytes in 8 bits (every group is below 2^width)
encodePayload(data, type) ==
    LET n == Len(data)
    IN CASE type = "numeric" ->
              LET t == alphabetDecode(info_alphabet.numeric, data).digits
                  group(g) == t[3 * g + 1] * 100 + t[3 * g + 2] * 10 + t[3 * g + 3]
              IN AsSeq([i \in 1..(10 * (n \div 3)) |->
                          binAt(group((i - 1) \div 10), 10, ((i - 1) % 10) + 1)])
                 \o (IF n % 3 = 1 THEN bin(t[n], 4)
                     ELSE IF n % 3 = 2 THEN bin(t[n - 1] * 10 + t[n], 7) ELSE <<>>)
         [] type = "alphanumeric" ->
              LET t == alphabetDecode(info_alphabet.alphanumerc, data).digits
                  pair(g) == t[2 * g + 1] * 45 + t[2 * g + 2]
              IN AsSeq([i \in 1..(11 * (n \div 2)) |->
                          binAt(pair((i - 1) \div 11), 11, ((i - 1) % 11) + 1)])
                 \o (IF n % 2 = 1 THEN bin(t[n], 6) ELSE <<>>)
         [] type = "byte" ->
              AsSeq([i \in 1..(8 * n) |-> binAt(data[((i - 1) \div 8) + 1], 8, ((i - 1) % 8) + 1)])

\* bits.length > capacity, one bit short
capacityOverflowOffByOne(length, capacity) == length >= capacity

\* bits.length > capacity
capacityOverflow(length, capacity) == length > capacity

\* the terminator taken as four bits whatever room is left
terminatorFour(length, capacity) == 4

\* Math.min(4, Math.max(0, capacity - bits.length))
terminator(length, capacity) == Min(4, Max(0, capacity - length))

\* encode(ver, ecc, data, type) up to the bit string of capacity bits: the
\* length field, the mode, length and payload bits (head), the bits after the
\* terminator, the zeros up to a byte and the padding, or the error thrown.
\* The padding loop adds a bit until bits.length === capacity; it has no end
\* when the bits are longer than the capacity as it begins.
assemble(ver, ecc, data, type) ==
    LET indexOf == IF type = "numeric" THEN info_alphabet.numeric
                   ELSE info_alphabet.alphanumerc
        padding == <<1, 1, 1, 0, 1, 1, 0, 0, 0, 0, 0, 1, 0, 0, 0, 1>>
        aligned(n) == n + ((8 - (n % 8)) % 8)
        padded(bits, capacity, upTo) ==
            AsSeq([i \in 1..capacity |->
                IF i <= Len(bits) THEN bits[i]
                ELSE IF i <= upTo THEN 0
                ELSE padding[((i - upTo - 1) % 16) + 1]])
        looped(len, bits, capacity, upTo) ==
            IF upTo > capacity
            THEN [err |-> "padding without end", len |-> len, head |-> bits, bits |-> <<>>]
            ELSE [err |-> "", len |-> len, head |-> bits,
                  bits |-> padded(bits, capacity, upTo)]
        result(len, bits, capacity, decoded) ==
            IF type # "byte" /\ decoded.err # ""
            THEN [err |-> decoded.err, len |-> <<>>, head |-> <<>>, bits |-> <<>>]
            ELSE IF capacityOverflow(Len(bits), capacity)
            THEN [err |-> "Capacity overflow", len |-> len, head |-> bits, bits |-> <<>>]
            ELSE looped(len, bits, capacity,
                        aligned(Len(bits) + terminator(Len(bits), capacity)))
        counted(len) ==
            result(len, info_modeBits[type] \o len \o encodePayload(data, type),
                   info_capacity(ver, ecc).capacity, alphabetDecode(indexOf, data))
    IN counted(bin(Len(data), info_lengthBits(ver, type)))

\* encode(ver, ecc, data, type): the interleaved codewords, or the error thrown
encode(ver, ecc, data, type) ==
    LET byteAt(full, k) ==
            128 * full[k - 7] + 64 * full[k - 6] + 32 * full[k - 5] + 16 * full[k - 4]
            + 8 * full[k - 3] + 4 * full[k - 2] + 2 * full[k - 1] + full[k]
        bytes(full) == AsSeq([k \in 1..(Len(full) \div 8) |-> byteAt(full, 8 * k)])
        result(a) ==
            IF a.err # "" THEN [err |-> a.err, data |-> <<>>]
            ELSE [err |-> "", data |-> interleave_encode(ver, ecc, bytes(a.bits))]
    IN result(assemble(ver, ecc, data, type))

(***************************************************************************)
(* Drawing: function patterns, format and version information, the zigzag  *)
(* placement of the codewords and the eight masks.                         *)
(***************************************************************************)
\* the calls b.set(x, y, v) of a loop, applied in order: a word ends with the
\* bit of the last call that hit each of its cells
setEach(b, calls) ==
    LET hits(wi) == {i \in 1..Len(calls) :
                        calls[i].v # "unset" /\ wordIndex(b, calls[i].x, calls[i].y) = wi}
        last(wi) == {i \in hits(wi) :
                        \A j \in hits(wi) : j > i => calls[j].x % 32 # calls[i].x % 32}
    IN [b EXCEPT
          !.defined = [wi \in DOMAIN @ |->
                          @[wi] \cup {calls[i].x % 32 : i \in hits(wi)}] @@ <<>>,
          !.value = [wi \in DOMAIN @ |->
                        (@[wi] \ {calls[i].x % 32 : i \in hits(wi)})
                        \cup {calls[i].x % 32 : i \in {j \in last(wi) : calls[j].v = "dark"}}]
                    @@ <<>>]

\* info.alignmentPatterns without the step of two for an even interval
info_alignmentPatternsOddOnly(ver) ==
    IF ver = 1 THEN <<>>
    ELSE LET first == 6
             last == info_size(ver) - first - 1
             distance == last - first
             count == (distance + 27) \div 28
             floorInterval == distance \div count
             interval == IF floorInterval % 2 # 0 THEN floorInterval + 1 ELSE floorInterval
         IN <<first>> \o AsSeq([m \in 1..(count - 1) |-> last - (count - m) * interval])
            \o <<last>>

\* info.alignmentPatterns
info_alignmentPatterns(ver) ==
    IF ver = 1 THEN <<>>
    ELSE LET first == 6
             last == info_size(ver) - first - 1
             distance == last - first
             count == (distance + 27) \div 28
             floorInterval == distance \div count
             interval == IF floorInterval % 2 # 0 THEN floorInterval + 1
                         ELSE IF (distance % count) * 2 >= count THEN floorInterval + 2
                         ELSE floorInterval
         IN <<first>> \o AsSeq([m \in 1..(count - 1) |-> last - (count - m) * interval])
            \o <<last>>

info_ECCode == [low |-> 1, medium |-> 0, quartile |-> 3, high |-> 2]

\* d = (d << 1) ^ ((d >> shift) * poly), n times
RECURSIVE bchLoop(_, _, _, _)
bchLoop(d, shift, poly, n) ==
    IF n = 0 THEN d
    ELSE bchLoop(XorBits(2 * d, (d \div 2^shift) * poly, 20), shift, poly, n - 1)

\* info.formatBits with nine turns of the loop instead of ten
info_formatBitsNineTurns(ecc, maskIdx) ==
    LET data == info_ECCode[ecc] * 8 + maskIdx
    IN XorBits(data * 1024 + bchLoop(data, 9, 1335, 9), 21522, 20)

\* info.formatBits: poly 0b10100110111, formatMask 0b101010000010010
info_formatBits(ecc, maskIdx) ==
    LET data == info_ECCode[ecc] * 8 + maskIdx
    IN XorBits(data * 1024 + bchLoop(data, 9, 1335, 10), 21522, 20)

\* info.versionBits with the polynomial 0b1111100100100
info_versionBitsEvenPoly(ver) == ver * 4096 + bchLoop(ver, 11, 7972, 12)

\* info.versionBits: poly 0b1111100100101
info_versionBits(ver) == ver * 4096 + bchLoop(ver, 11, 7973, 12)

\* PATTERNS[maskIdx](x, y)
PATTERNS(maskIdx, x, y) ==
    CASE maskIdx = 0 -> (x + y) % 2 = 0
      [] maskIdx = 1 -> y % 2 = 0
      [] maskIdx = 2 -> x % 3 = 0
      [] maskIdx = 3 -> (x + y) % 3 = 0
      [] maskIdx = 4 -> ((y \div 2) + (x \div 3)) % 2 = 0
      [] maskIdx = 5 -> ((x * y) % 2) + ((x * y) % 3) = 0
      [] maskIdx = 6 -> (((x * y) % 2) + ((x * y) % 3)) % 2 = 0
      [] maskIdx = 7 -> (((x + y) % 2) + ((x * y) % 3)) % 2 = 0

Whole == [width |-> Infinity, height |-> Infinity]
Square(n) == [width |-> n, height |-> n]
At(x, y) == [x |-> x, y |-> y]

\* the finder pattern without the light ring around it
finderBare ==
    border(border(rect(NewBitmap(3, 3), At(0, 0), Square(3), "dark"), 1, "light"), 1, "dark")

\* new Bitmap(3).rect(0, 3, true).border(1, false).border(1, true).border(1, false)
finder ==
    border(border(border(rect(NewBitmap(3, 3), At(0, 0), Square(3), "dark"),
                         1, "light"), 1, "dark"), 1, "light")

\* new Bitmap(1).rect(0, 1, true).border(1, false).border(1, true)
align == border(border(rect(NewBitmap(1, 1), At(0, 0), Square(1), "dark"), 1, "light"), 1, "dark")

\* for y of alignPos, for x of alignPos: embed unless (x, y) is defined
RECURSIVE drawAlignment(_, _, _)
drawAlignment(b, alignPos, k) ==
    IF k >= Len(alignPos) * Len(alignPos) THEN b
    ELSE LET y == alignPos[(k \div Len(alignPos)) + 1]
             x == alignPos[(k % Len(alignPos)) + 1]
         IN drawAlignment(IF isDefined(b, x, y) THEN b ELSE embed(b, At(x - 2, y - 2), align),
                          alignPos, k + 1)

\* getBit(i) = !test && ((bits >> i) & 1) == 1
getBit(bits, i, test) == IF ~test /\ (bits \div 2^i) % 2 = 1 THEN "dark" ELSE "light"

\* the b.set calls of the format information block, in order
formatCalls(size, bits, test) ==
    AsSeq([k \in 1..31 |->
        LET i == (k - 1) % 15
        IN IF k <= 15
           THEN [x |-> 8,
                 y |-> IF i < 6 THEN i ELSE IF i < 8 THEN i + 1 ELSE size - 15 + i,
                 v |-> getBit(bits, i, test)]
           ELSE IF k <= 30
           THEN [x |-> IF i < 8 THEN size - i - 1 ELSE IF i < 9 THEN 15 - i - 1 + 1
                       ELSE 15 - i - 1,
                 y |-> 8,
                 v |-> getBit(bits, i, test)]
           ELSE [x |-> 8, y |-> size - 8, v |-> IF test THEN "light" ELSE "dark"]])

\* the b.set calls of the version information block: two copies of every bit
versionCalls(size, bits, test) ==
    AsSeq([k \in 1..36 |->
        LET i == (k - 1) \div 2
            x == i \div 3
            y == (i % 3) + size - 8 - 3
        IN IF k % 2 = 1 THEN [x |-> y, y |-> x, v |-> getBit(bits, i, test)]
           ELSE [x |-> x, y |-> y, v |-> getBit(bits, i, test)]])

\* drawTemplate(ver, ecc, maskIdx, test)
drawTemplate(ver, ecc, maskIdx, test) ==
    LET size == info_size(ver)
        corners(f) == embed(embed(embed(NewBitmap(size + 2, size + 2), At(0, 0), f),
                                  At(-f.width, 0), f),
                            At(0, -f.height), f)
        timed(aligned) == vLine(hLine(aligned, At(0, 6), Infinity, "timingH"),
                                At(6, 0), Infinity, "timingV")
        versioned(formatted) ==
            IF ver >= 7 THEN setEach(formatted, versionCalls(size, info_versionBits(ver), test))
            ELSE formatted
    IN versioned(setEach(timed(drawAlignment(rectSlice(corners(finder), At(1, 1), Square(size)),
                                             info_alignmentPatterns(ver), 0)),
                         formatCalls(size, info_formatBits(ecc, maskIdx), test)))

\* the values of xOffset in zigzag: size-1, size-3, ..., with 6 replaced by 5
RECURSIVE zigzagColumns(_)
zigzagColumns(xOffset) ==
    IF xOffset <= 0 THEN <<>>
    ELSE LET xo == IF xOffset = 6 THEN 5 ELSE xOffset
         IN <<xo>> \o zigzagColumns(xo - 2)

\* zigzag(tpl, maskIdx, fn): the calls fn(x, y, mask) in order.  y runs to the
\* far edge and stays there, so the pairs of columns alternate upwards and
\* downwards; a cell is visited once, so isDefined sees the template
zigzag(tpl, maskIdx) ==
    LET size == tpl.height
        cols == zigzagColumns(size - 1)
        visit(q) ==
            LET p == q \div (2 * size)
                t == (q \div 2) % size
            IN [x |-> cols[p + 1] - (q % 2),
                y |-> IF p % 2 = 0 THEN size - 1 - t ELSE t]
        visits == AsSeq([q \in 1..(2 * size * Len(cols)) |-> visit(q - 1)])
        Unset(c) == ~isDefined(tpl, c.x, c.y)
        cells == SelectSeq(visits, Unset)
    IN AsSeq([k \in 1..Len(cells) |->
                [x |-> cells[k].x, y |-> cells[k].y,
                 mask |-> PATTERNS(maskIdx, cells[k].x, cells[k].y)]])

\* drawQR(ver, ecc, data, maskIdx, test): the bitmap, or the error thrown
drawQR(ver, ecc, data, maskIdx, test) ==
    LET need == 8 * Len(data)
        value(i) == i < need /\ (data[(i \div 8) + 1] \div 2^(7 - (i % 8))) % 2 = 1
        sets(calls) ==
            AsSeq([k \in 1..Len(calls) |->
                [x |-> calls[k].x, y |-> calls[k].y,
                 v |-> IF value(k - 1) # calls[k].mask THEN "dark" ELSE "light"]])
        placed(b, calls) ==
            IF Min(Len(calls), need) # need
            THEN [err |-> "QR: bytes left after draw", bitmap |-> NoBitmap]
            ELSE [err |-> "", bitmap |-> setEach(b, sets(calls))]
        drawn(b) == placed(b, zigzag(b, maskIdx))
    IN drawn(drawTemplate(ver, ecc, maskIdx, test))

(***************************************************************************)
(* Penalty of a drawn symbol                                               *)
(***************************************************************************)
XorWord(a, b) == (a \ b) \cup (b \ a)

\* one stage of transpose32: s = 1 << stage, the pairs (i0, i0 + s) are disjoint
transposeStage(a, stage) ==
    LET s == 2^stage
        m == {k \in AllBits : (k \div s) % 2 = 0}
        t(i0) == XorWord(Shr(a[i0], s), a[i0 + s]) \cap m
    IN [i \in 0..31 |-> IF (i \div s) % 2 = 0 THEN XorWord(a[i], Shl(t(i), s))
                        ELSE XorWord(a[i], t(i - s))] @@ <<>>

\* transpose32 that leaves the block as it is
transpose32Identity(a) == a

transpose32(a) ==
    transposeStage(transposeStage(transposeStage(transposeStage(transposeStage(a, 0), 1), 2), 3), 4)

\* transpose(): blocks of 32 rows by one word, each transposed by transpose32
transpose(b) ==
    LET dst == NewBitmap(b.width, b.height)
        dstTail == rangeMask(0, IF dst.width % 32 = 0 THEN 32 ELSE dst.width % 32)
        block(plane, bx, by) ==
            transpose32([r \in 0..31 |->
                IF r < Min(32, b.height - by) THEN RdWord(plane, wordIndex(b, 32 * bx, by + r))
                ELSE {}] @@ <<>>)
        word(plane, dstPos) ==
            LET dstY == dstPos \div dst.words
                by == 32 * (dstPos % dst.words)
                curMask == IF ushr5(by) = dst.words - 1 THEN dstTail ELSE AllBits
            IN block(plane, dstY \div 32, by)[dstY % 32] \cap curMask
    IN [dst EXCEPT !.value = [dstPos \in DOMAIN @ |-> word(b.value, dstPos)] @@ <<>>,
                   !.defined = [dstPos \in DOMAIN @ |-> word(b.defined, dstPos)] @@ <<>>]

\* the sum of a sequence of numbers
Sum(lst) ==
    LET part[lo \in Nat, hi \in Nat] ==
            IF lo > hi THEN 0
            ELSE IF lo = hi THEN lst[lo]
            ELSE part[lo, (lo + hi) \div 2] + part[((lo + hi) \div 2) + 1, hi]
    IN part[1, Len(lst)]

\* bit x of row y of the value plane
rowBit(b, y, x) == (x % 32) \in RdWord(b.value, wordIndex(b, 0, y) + (x \div 32))

\* getRuns(y, fn): the calls fn(len, value), one per maximal run of equal bits
getRuns(b, y) ==
    LET starts == SortedSeq({x \in 0..(b.width - 1) :
                                x = 0 \/ rowBit(b, y, x) # rowBit(b, y, x - 1)})
    IN AsSeq([k \in 1..Len(starts) |->
                [len |-> (IF k = Len(starts) THEN b.width ELSE starts[k + 1]) - starts[k],
                 value |-> rowBit(b, y, starts[k])]])

\* popcnt(): the dark cells, the padding of the last word masked off
popcnt(b) ==
    IF b.height = 0 \/ b.width = 0 THEN 0
    ELSE LET tailMask == rangeMask(0, IF b.width % 32 = 0 THEN 32 ELSE b.width % 32)
             fullWords == b.width \div 32
         IN Sum(AsSeq([k \in 1..(b.words * b.height) |->
                    IF (k - 1) % b.words < fullWords
                    THEN Cardinality(RdWord(b.value, k - 1))
                    ELSE Cardinality(RdWord(b.value, k - 1) \cap tailMask)]))

\* validLast with every bit of the last word taken as a left edge
validLastAll(width) == AllBits

\* validLast: the left edges x <= W - 2 in the last word of a row
validLast(width) ==
    IF width % 32 = 0 THEN 0..30 ELSE rangeMask(0, (width - 1) % 32)

\* countBoxes2x2(y): left edges x of the 2x2 boxes of one colour in rows y, y+1
countBoxes2x2(b, y) ==
    IF b.width < 2 \/ y < 0 \/ y + 1 >= b.height THEN 0
    ELSE LET base0 == wordIndex(b, 0, y)
             base1 == wordIndex(b, 0, y + 1)
             next(base, wi) == IF wi + 1 < b.words THEN RdWord(b.value, base + wi + 1) ELSE {}
             eqH(a, n) == AllBits \ XorWord(a, Shr(a, 1) \cup (IF 0 \in n THEN {31} ELSE {}))
             boxes(wi) ==
                 LET a0 == RdWord(b.value, base0 + wi)
                     a1 == RdWord(b.value, base1 + wi)
                     eqV == AllBits \ XorWord(a0, a1)
                     m == eqV \cap eqH(a0, next(base0, wi)) \cap eqH(a1, next(base1, wi))
                 IN Cardinality(IF wi = b.words - 1 THEN m \cap validLast(b.width) ELSE m)
         IN Sum(AsSeq([k \in 1..b.words |-> boxes(k - 1)]))

\* the window after the bit of column x: the last patternLen bits, newest lowest
RECURSIVE window(_, _, _, _)
window(b, y, x, patternLen) ==
    IF patternLen = 0 THEN 0
    ELSE (IF rowBit(b, y, x) THEN 1 ELSE 0)
         + 2 * window(b, y, x - 1, patternLen - 1)

\* countPatternInRow(y, patternLen, ...patterns)
countPatternInRow(b, y, patternLen, patterns) ==
    Cardinality({x \in (patternLen - 1)..(b.width - 1) :
                    window(b, y, x, patternLen) \in patterns})

\* mkPattern: Number('0b' + bits)
RECURSIVE mkPatternN(_, _)
mkPatternN(pattern, k) ==
    IF k = 0 THEN 0 ELSE (IF pattern[k] THEN 1 ELSE 0) + 2 * mkPatternN(pattern, k - 1)

mkPattern(pattern) == [len |-> Len(pattern), n |-> mkPatternN(pattern, Len(pattern))]

finderPattern == <<TRUE, FALSE, TRUE, TRUE, TRUE, FALSE, TRUE>>
lightPattern == <<FALSE, FALSE, FALSE, FALSE>>
P1 == mkPattern(finderPattern \o lightPattern)
P2 == mkPattern(lightPattern \o finderPattern)

\* adjacent += 3 + (len - 5) for every run of 5 or more in row y
adjacentInRow(b, y) ==
    LET runs == getRuns(b, y)
    IN Sum(AsSeq([k \in 1..Len(runs) |-> IF runs[k].len >= 5 THEN 3 + (runs[k].len - 5) ELSE 0]))

\* penalty(bm); the symbol has an odd number of cells, so the dark share is
\* never on a multiple of 5% except at 0% and 100%, and floor is exact
penalty(b) ==
    LET transposed == transpose(b)
        adjacent == Sum(AsSeq([y \in 1..b.height |-> adjacentInRow(b, y - 1)]))
                    + Sum(AsSeq([y \in 1..b.width |-> adjacentInRow(transposed, y - 1)]))
        box == Sum(AsSeq([y \in 1..(b.height - 1) |-> 3 * countBoxes2x2(b, y - 1)]))
        finders == Sum(AsSeq([y \in 1..b.height |->
                        40 * countPatternInRow(b, y - 1, P1.len, {P1.n, P2.n})]))
                   + Sum(AsSeq([y \in 1..b.width |->
                        40 * countPatternInRow(transposed, y - 1, P1.len, {P1.n, P2.n})]))
        darkPixels == popcnt(b)
        cells == b.height * b.width
        deviation == IF 100 * darkPixels >= 50 * cells THEN 100 * darkPixels - 50 * cells
                     ELSE 50 * cells - 100 * darkPixels
        dark == 10 * (deviation \div (5 * cells))
    IN adjacent + box + finders + dark

(***************************************************************************)
(* Output of the encoder and the entry of the decoder                      *)
(***************************************************************************)
\* scale(factor): a new bitmap drawn by rect(0, Infinity, fn) with
\* fn({x, y}) = this.get((x / factor) | 0, (y / factor) | 0); the callback
\* never returns undefined, so every cell of a word is defined
scale(b, factor) ==
    LET res == NewBitmap(factor * b.height, factor * b.width)
        cols(wi) == IF res.width <= 0 THEN {}
                    ELSE (32 * (wi % res.words))..Min(32 * (wi % res.words) + 31, res.width - 1)
    IN [res EXCEPT
          !.defined = [wi \in DOMAIN @ |-> {x % 32 : x \in cols(wi)}] @@ <<>>,
          !.value = [wi \in DOMAIN @ |->
                        {x % 32 : x \in {c \in cols(wi) :
                            get(b, c \div factor, (wi \div res.words) \div factor)}}] @@ <<>>]

\* assertDrawn(): the error thrown when a cell is unset, "" when none is
assertDrawn(b) ==
    LET tailMask == rangeMask(0, IF b.width % 32 = 0 THEN 32 ELSE b.width % 32)
        fullWords == b.width \div 32
    IN IF b.height = 0 \/ b.width = 0 THEN ""
       ELSE IF \E y \in 0..(b.height - 1) :
                  \/ \E wi \in 0..(fullWords - 1) : RdWord(b.defined, y * b.words + wi) # AllBits
                  \/ /\ b.words # fullWords
                     /\ RdWord(b.defined, y * b.words + fullWords) \cap tailMask # tailMask
       THEN "Invalid color type=undefined"
       ELSE ""

\* toRaw(): rows of booleans, row[x] = this.get(x, y)
toRaw(b) == AsSeq([y \in 1..b.height |-> AsSeq([x \in 1..b.width |-> get(b, x - 1, y - 1)])])

\* new Bitmap({height, width}, matrix) for a matrix of booleans
matrixBitmap(matrix) ==
    LET width == IF Len(matrix) = 0 THEN 0 ELSE Len(matrix[1])
    IN BitmapFromData(Len(matrix), width,
          [y \in 1..Len(matrix) |->
              [x \in 1..width |-> IF matrix[y][x] THEN "dark" ELSE "light"]])

\* toImage(isRGB): dark = 0, light or unset = 255, alpha 255
toImage(b, isRGB) ==
    LET perPixel == IF isRGB THEN 3 ELSE 4
    IN [height |-> b.height, width |-> b.width,
        data |-> AsSeq([k \in 1..(b.height * b.width * perPixel) |->
                    IF (k - 1) % perPixel = 3 THEN 255
                    ELSE IF get(b, ((k - 1) \div perPixel) % b.width,
                                   ((k - 1) \div perPixel) \div b.width)
                    THEN 0 ELSE 255])]

GRAYSCALE_BLOCK_SIZE == 8

\* getBytesPerPixel: 3 or 4, 0 for the error
getBytesPerPixel(img) ==
    IF img.width * img.height > 0 /\ Len(img.data) = 3 * img.width * img.height THEN 3
    ELSE IF img.width * img.height > 0 /\ Len(img.data) = 4 * img.width * img.height THEN 4
    ELSE 0

\* cropToSquare(img): the centred square, rows copied
cropToSquare(img) ==
    LET squareSize == Min(img.height, img.width)
        offset == [x |-> (img.width - squareSize) \div 2, y |-> (img.height - squareSize) \div 2]
        bytesPerPixel == getBytesPerPixel(img)
        length == squareSize * bytesPerPixel
    IN IF bytesPerPixel = 0
       THEN [err |-> "Unknown image format", offset |-> offset, img |-> img]
       ELSE [err |-> "", offset |-> offset,
             img |-> [height |-> squareSize, width |-> squareSize,
                      data |-> AsSeq([k \in 1..(squareSize * length) |->
                          img.data[(((k - 1) \div length) + offset.y) * img.width * bytesPerPixel
                                   + offset.x * bytesPerPixel + ((k - 1) % length) + 1]])]]

\* the guard of toBitmap with four blocks instead of five
imageTooSmallFourBlocks(width, height, block) == width < block * 4 \/ height < block * 4

\* img.width < block * 5 || img.height < block * 5
imageTooSmall(width, height, block) == width < block * 5 \/ height < block * 5

\* toBitmap(img) up to the grid of blocks: the brightness of every pixel, then
\* the guard; the thresholding that follows is not part of this model
toBitmap(img) ==
    LET bytesPerPixel == getBytesPerPixel(img)
        brightness == AsSeq([j \in 1..(img.height * img.width) |->
                          ((img.data[(j - 1) * bytesPerPixel + 1]
                            + 2 * img.data[(j - 1) * bytesPerPixel + 2]
                            + img.data[(j - 1) * bytesPerPixel + 3]) \div 4) % 256])
        block == GRAYSCALE_BLOCK_SIZE
    IN IF bytesPerPixel = 0 THEN [err |-> "Unknown image format", bWidth |-> 0, bHeight |-> 0]
       ELSE IF imageTooSmall(img.width, img.height, block)
       THEN [err |-> "image too small", bWidth |-> 0, bHeight |-> 0]
       ELSE [err |-> "", bWidth |-> (img.width + block - 1) \div block,
             bHeight |-> (img.height + block - 1) \div block]

\* decodeQR(img, opts) up to the call of detect: the error thrown before it,
\* or the stage reached
decodeQR(img, cropOpt) ==
    LET entry == [NoDec EXCEPT !.width = img.width, !.height = img.height,
                               !.cropToSquare = cropOpt]
        cropped == IF cropOpt THEN cropToSquare(img) ELSE [err |-> "", img |-> img]
        bmp == toBitmap(cropped.img)
    IN IF img.height <= 0 THEN [entry EXCEPT !.err = "Wrong img.height", !.stage = "validate"]
       ELSE IF img.width <= 0 THEN [entry EXCEPT !.err = "Wrong img.width", !.stage = "validate"]
       ELSE IF cropped.err # "" THEN [entry EXCEPT !.err = cropped.err, !.stage = "cropToSquare"]
       ELSE IF bmp.err # "" THEN [entry EXCEPT !.err = bmp.err, !.stage = "toBitmap"]
       ELSE [entry EXCEPT !.stage = "detect"]

(***************************************************************************)
(* encodeQR(text, 'raw', opts), step by step: the options, the version     *)
(* loop, the mask loop, the final drawing; then decodeQR of the gray image *)
(* of the returned matrix.                                                 *)
(***************************************************************************)
Encoding == <<"numeric", "alphanumeric", "byte", "kanji", "eci">>

\* if (score >= bestScore) return, with a strict comparison
bestSkipsStrict(score, bestScore) == score > bestScore

\* best().add: if (score >= bestScore) return
bestSkips(score, bestScore) == score >= bestScore

best_add(st, score, value) ==
    IF bestSkips(score, st.bestScore) THEN st ELSE [best |-> value, bestScore |-> score]

\* opts.border === undefined ? 2 : opts.border, without the default margin
optBorderNone(opts) == IF opts.border = undefined THEN 0 ELSE opts.border

\* opts.border === undefined ? 2 : opts.border
optBorder(opts) == IF opts.border = undefined THEN 2 ELSE opts.border

Fail(at, err) == qr' = [qr EXCEPT !.pc = "failed", !.at = at, !.err = err]

Others == UNCHANGED <<bm, pre, op, ret, steps, rs>>

\* ecc, encoding and mask are resolved and validated; a given version is
\* encoded at once, otherwise the loop over the versions starts
EncodeStart ==
    /\ qr.pc = "start"
    /\ Others
    /\ LET ecc == IF qr.opts.ecc # "undefined" THEN qr.opts.ecc ELSE "medium"
           ver == qr.opts.version
           given(started, r) ==
               IF r.err # "" THEN Fail("encode", r.err)
               ELSE qr' = [started EXCEPT !.pc = "checked", !.ver = ver, !.data = r.data]
           checked(encoding, started) ==
               IF \A k \in 1..Len(ECMode) : ECMode[k] # ecc
               THEN Fail("options", "Invalid error correction mode")
               ELSE IF \A k \in 1..Len(Encoding) : Encoding[k] # encoding
               THEN Fail("options", "Encoding: invalid mode")
               ELSE IF encoding \in {"kanji", "eci"}
               THEN Fail("options", "Encoding: not supported")
               ELSE IF qr.opts.mask # undefined /\ qr.opts.mask \notin 0..7
               THEN Fail("options", "Invalid mask")
               ELSE IF ver = undefined
               THEN qr' = [started EXCEPT !.pc = "version", !.i = 1]
               ELSE IF ver < 1 \/ ver > 40
               THEN Fail("options", "Invalid version")
               ELSE given(started, encode(ver, ecc, qr.text, encoding))
           resolved(encoding) ==
               checked(encoding,
                       [qr EXCEPT !.ecc = ecc, !.encoding = encoding, !.err = "Unknown error"])
       IN resolved(IF qr.opts.encoding # "undefined" THEN qr.opts.encoding
                   ELSE detectType(qr.text))

\* one turn of for (let i = 1; i <= 40; i++): try { encode; break } catch
TryVersion ==
    /\ qr.pc = "version"
    /\ qr.i <= 40
    /\ Others
    /\ LET tried(r) ==
               IF r.err # ""
               THEN qr' = [qr EXCEPT !.err = r.err, !.i = qr.i + 1]
               ELSE qr' = [qr EXCEPT !.pc = "checked", !.ver = qr.i, !.data = r.data]
       IN tried(encode(qr.i, qr.ecc, qr.text, qr.encoding))

\* if (!ver || !data) throw err; then drawQRBest starts: the mask loop when no
\* mask is given
CheckVersion ==
    /\ \/ qr.pc = "checked"
       \/ qr.pc = "version" /\ qr.i > 40
    /\ Others
    /\ IF qr.ver = undefined THEN Fail("version", qr.err)
       ELSE IF qr.opts.mask = undefined
       THEN qr' = [qr EXCEPT !.pc = "mask", !.mask = 0]
       ELSE qr' = [qr EXCEPT !.pc = "draw", !.maskIdx = qr.opts.mask]

\* one turn of the mask loop: bestMask.add(penalty(drawQR(.., mask, true)), mask)
TryMask ==
    /\ qr.pc = "mask"
    /\ qr.mask < 8
    /\ Others
    /\ LET scored(score) ==
               qr' = [qr EXCEPT !.best = best_add(qr.best, score, qr.mask),
                                !.scores = Append(qr.scores, score),
                                !.mask = qr.mask + 1]
           tried(d) == IF d.err # "" THEN Fail("mask", d.err) ELSE scored(penalty(d.bitmap))
       IN tried(drawQR(qr.ver, qr.ecc, qr.data, qr.mask, TRUE))

\* maskIdx = bestMask.get(); drawQR; assertDrawn; border; scale; toRaw
Draw ==
    /\ \/ qr.pc = "draw"
       \/ qr.pc = "mask" /\ qr.mask >= 8
    /\ Others
    /\ LET maskIdx == IF qr.pc = "mask" THEN qr.best.best ELSE qr.maskIdx
           scaled(framed) ==
               IF qr.opts.scale # undefined THEN scale(framed, qr.opts.scale) ELSE framed
           drawn(d, asserted) ==
               IF maskIdx = undefined THEN Fail("draw", "Cannot find mask")
               ELSE IF d.err # "" THEN Fail("draw", d.err)
               ELSE IF asserted # "" THEN Fail("draw", asserted)
               ELSE IF qr.opts.scale # undefined /\ qr.opts.scale > 1024
               THEN Fail("draw", "invalid scale factor")
               ELSE qr' = [qr EXCEPT
                             !.pc = "done", !.maskIdx = maskIdx,
                             !.out = toRaw(scaled(border(d.bitmap, optBorder(qr.opts), "light")))]
           checked(d) == drawn(d, assertDrawn(d.bitmap))
       IN checked(drawQR(qr.ver, qr.ecc, qr.data, maskIdx, FALSE))

\* decodeQR(new Bitmap(size, matrix).toImage(), {cropToSquare})
Decode ==
    /\ qr.pc = "done"
    /\ Others
    /\ \E cropOpt \in BOOLEAN :
          qr' = [qr EXCEPT !.pc = "decoded",
                           !.dec = decodeQR(toImage(matrixBitmap(qr.out), FALSE), cropOpt)]

NextQR == EncodeStart \/ TryVersion \/ CheckVersion \/ TryMask \/ Draw \/ Decode

(***************************************************************************)
(* Calls of encodeQR the machine is started with                           *)
(***************************************************************************)
LongTextLen == 10000     \* 'X' repeated: longer than any version holds
ExactFitDigits == 27     \* digits that fill version 1, quartile, to the bit
ManyDigits == 553        \* digits that need version 10, low
MaxScale == 2            \* scale factors 1..MaxScale
MaxBorder == 8           \* the widest border tried
GivenVersions == {4, 5}   \* 37 and 41 pixels with the default border

Digits(n) == AsSeq([i \in 1..n |-> 48 + (i % 10)])
Repeat(char, n) == AsSeq([i \in 1..n |-> char])
HelloWorld == <<72, 69, 76, 76, 79, 32, 87, 79, 82, 76, 68>>

Input(text, opts) == [text |-> text, opts |-> opts]

StartWith(inputs) ==
    /\ bm = NoBitmap /\ pre = NoBitmap /\ op = NoOp /\ ret = NoRet /\ steps = 0
    /\ rs = NoRS
    /\ \E in \in inputs : qr = [NoQR EXCEPT !.pc = "start", !.text = in.text, !.opts = in.opts]

\* no version given: texts around the capacity of a version, a text no
\* version holds, and a text the forced encoding cannot express
VersionInputs ==
    {Input(Digits(ExactFitDigits), [NoOpts EXCEPT !.ecc = "quartile"]),
     Input(Digits(ExactFitDigits + 1), [NoOpts EXCEPT !.ecc = "quartile", !.mask = 0]),
     Input(Digits(ManyDigits), [NoOpts EXCEPT !.ecc = "low", !.mask = 0]),
     Input(Repeat(88, LongTextLen), NoOpts),
     Input(<<65>>, [NoOpts EXCEPT !.encoding = "numeric"]),
     Input(HelloWorld, [NoOpts EXCEPT !.mask = 7])}

\* no mask given: texts of version 1, several of which have two masks of
\* minimal penalty
MaskInputs ==
    {Input(<<48, 49>>, [NoOpts EXCEPT !.ecc = "low"]),
     Input(<<49, 48, 48>>, NoOpts),
     Input(<<49, 65, 48>>, NoOpts),
     Input(<<48, 65, 97>>, NoOpts),
     Input(<<32, 32, 65>>, [NoOpts EXCEPT !.ecc = "high"]),
     Input(<<97, 32, 48>>, [NoOpts EXCEPT !.ecc = "low"]),
     Input(<<48>>, [NoOpts EXCEPT !.ecc = "low"]),
     Input(HelloWorld, [NoOpts EXCEPT !.ecc = "quartile"])}

\* a version and an ecc given; a scale and a border given; the 21x21 symbol
RoundTripInputs ==
    {Input(HelloWorld, [NoOpts EXCEPT !.ecc = e, !.version = v]) :
        e \in {"quartile"}, v \in GivenVersions}
    \cup {Input(<<48>>, [NoOpts EXCEPT !.ecc = "low", !.version = 1])}
    \cup {Input(HelloWorld, [NoOpts EXCEPT !.ecc = "quartile", !.version = 1,
                                          !.mask = 0, !.border = 0])}
    \cup {Input(HelloWorld, [NoOpts EXCEPT !.mask = 0, !.scale = s, !.border = b]) :
             s \in 1..MaxScale, b \in {0, 1, 2, MaxBorder}}
    \cup {Input(HelloWorld, [NoOpts EXCEPT !.mask = 0, !.scale = s, !.border = b,
                                          !.version = 5]) :
             s \in 1..MaxScale, b \in {1, 2}}

InitVersion == StartWith(VersionInputs)
InitMask == StartWith(MaskInputs)
InitRoundTrip == StartWith(RoundTripInputs)

SpecVersion == InitVersion /\ [][NextQR]_vars
SpecMask == InitMask /\ [][NextQR]_vars
SpecRoundTrip == InitRoundTrip /\ [][NextQR]_vars

(***************************************************************************)
(* Properties of encodeQR and decodeQR.  What a version must hold is        *)
(* restated from the standard: 4 mode bits, the length field of the        *)
(* version, and the payload of the segment.                                *)
(***************************************************************************)
PayloadBits(n, type) ==
    CASE type = "numeric" -> 10 * (n \div 3) + (IF n % 3 = 1 THEN 4 ELSE IF n % 3 = 2 THEN 7 ELSE 0)
      [] type = "alphanumeric" -> 11 * (n \div 2) + 6 * (n % 2)
      [] type = "byte" -> 8 * n

Expressible(text, type) ==
    \/ type = "byte"
    \/ type = "alphanumeric"
          /\ \A i \in 1..Len(text) : \E k \in 1..Len(AlphanumericChars) : AlphanumericChars[k] = text[i]
    \/ type = "numeric" /\ \A i \in 1..Len(text) : text[i] \in 48..57

Fits(v) ==
    /\ Expressible(qr.text, qr.encoding)
    /\ 4 + info_lengthBits(v, qr.encoding) + PayloadBits(Len(qr.text), qr.encoding)
          <= 8 * (BYTES[v] - WORDS_PER_BLOCK[qr.ecc][v] * ECC_BLOCKS[qr.ecc][v])

AutoVersion == qr.pc \notin {"idle", "start"} /\ qr.opts.version = undefined
AutoMask == qr.pc \notin {"idle", "start"} /\ qr.opts.mask = undefined

\* C4: with no version given, the loop is at version i only after versions
\* 1..i-1 all failed to hold the bit string; the version used is the smallest
\* of 1..40 that holds it; encodeQR fails only when none of 1..40 does, and
\* then with the error of the last trial.
C4_SmallestFittingVersion ==
    AutoVersion =>
        /\ qr.pc = "version" => \A v \in 1..(qr.i - 1) : ~Fits(v)
        /\ qr.ver # undefined => (Fits(qr.ver) /\ \A v \in 1..(qr.ver - 1) : ~Fits(v))
        /\ qr.pc \in {"checked", "mask", "draw", "done", "decoded"} => qr.ver \in 1..40
        /\ qr.pc = "failed" =>
              /\ qr.at = "version"
              /\ \A v \in 1..40 : ~Fits(v)
              /\ qr.err = encode(40, qr.ecc, qr.text, qr.encoding).err
              /\ qr.err = IF Expressible(qr.text, qr.encoding) THEN "Capacity overflow"
                          ELSE "Unknown letter"

\* the text of 10000 'X' overflowed every version 1..40 and encodeQR threw
C4_Witness ==
    /\ AutoVersion /\ qr.pc = "failed" /\ qr.at = "version" /\ qr.i = 41
    /\ Len(qr.text) = LongTextLen /\ qr.encoding = "alphanumeric"
    /\ qr.err = "Capacity overflow"

\* the lowest index among the masks of minimal score
LowestMinimal(scores) ==
    CHOOSE m \in 0..(Len(scores) - 1) :
        /\ \A k \in 1..Len(scores) : scores[m + 1] <= scores[k]
        /\ \A k \in 1..m : scores[k] > scores[m + 1]

\* C3: with no mask given, masks 0..7 are scored in order, each by the
\* penalty of its test-mode rendering; after every trial the best so far is the
\* lowest-index mask of minimal score; the mask used is the lowest-index mask
\* of minimal penalty among the eight, and one is always found.
C3_LowestMinimalMask ==
    AutoMask =>
        /\ qr.pc = "mask" =>
              /\ Len(qr.scores) = qr.mask
              /\ qr.mask > 0 =>
                    /\ qr.best.best = LowestMinimal(qr.scores)
                    /\ qr.best.bestScore = qr.scores[qr.best.best + 1]
        /\ qr.pc \in {"done", "decoded"} =>
              /\ Len(qr.scores) = 8
              /\ qr.maskIdx \in 0..7
              /\ qr.maskIdx = LowestMinimal(qr.scores)
              /\ qr.scores[qr.maskIdx + 1]
                    = penalty(drawQR(qr.ver, qr.ecc, qr.data, qr.maskIdx, TRUE).bitmap)
        /\ ~(qr.pc = "failed" /\ qr.at \in {"mask", "draw"})

\* "01" at low: masks 3 and 7 share the minimal penalty, mask 3 is used
C3_Witness ==
    /\ AutoMask /\ qr.pc = "done" /\ qr.text = <<48, 49>>
    /\ qr.scores[4] = qr.scores[8]
    /\ \A k \in 1..8 : qr.scores[4] <= qr.scores[k]
    /\ qr.maskIdx = 3

\* the side of the image rendered from the symbol: modules plus two borders,
\* times the scale
ImageSide ==
    (4 * qr.ver + 17 + 2 * (IF qr.opts.border = undefined THEN 2 ELSE qr.opts.border))
    * (IF qr.opts.scale = undefined THEN 1 ELSE qr.opts.scale)

Decoded == qr.pc = "decoded"
GivenVersionCase == Decoded /\ qr.opts.version # undefined /\ qr.opts.scale = undefined
ScaledCase == Decoded /\ qr.opts.scale # undefined /\ qr.opts.border # undefined

MaxFactor == 3       \* integer scale factors run from -2 to MaxFactor

Rational(num, den) == [num |-> num, den |-> den]

\* Number.isSafeInteger(factor)
isSafeInteger(f) == f.num % f.den = 0

\* if (!Number.isSafeInteger(factor) || factor > 1024) throw
scaleThrows(f) == ~isSafeInteger(f) \/ f.num \div f.den > 1024

\* scale(factor) as called: the error thrown, or the bitmap returned.  With a
\* side of 0 the rect call wraps its origin with mod(0, 0) = NaN, which the
\* next xy rejects; a negative factor gives negative sides and no cell to draw
scaleCall(b, f) ==
    IF scaleThrows(f) THEN [err |-> "invalid scale factor", bitmap |-> NoBitmap]
    ELSE IF (f.num \div f.den) * b.width = 0
    THEN [err |-> "Bitmap: invalid x=NaN", bitmap |-> NoBitmap]
    ELSE IF (f.num \div f.den) * b.height = 0
    THEN [err |-> "Bitmap: invalid y=NaN", bitmap |-> NoBitmap]
    ELSE [err |-> "", bitmap |-> scale(b, f.num \div f.den)]

\* constructor data without unset cells
DrawnData(height, width) ==
    [y \in 1..height |-> [x \in 1..width |->
        IF (x * x + 3 * y) % 5 < 2 THEN "dark" ELSE "light"]]

\* u16le: (i & 0xff, (i >>> 8) & 0xff)
u16le(i) == <<i % 256, (i \div 256) % 256>>

fillArr(length, val) == AsSeq([i \in 1..length |-> val])

\* toGIF with blocks of n literals: the header, the colour table and the image
\* descriptor; a block of n + 1 bytes for every n cells; the block of the
\* remaining cells; the end code, the end of the blocks and the trailer
gifBytes(b, n) ==
    LET dims == u16le(b.width) \o u16le(b.height)
        head == <<71, 73, 70, 56, 55, 97>> \o dims \o <<246, 0, 0, 255, 255, 255>>
                \o fillArr(3 * 127, 0) \o <<44, 0, 0, 0, 0>> \o dims \o <<0, 7>>
        blocks(data, fullChunks) ==
            AsSeq([k \in 1..(fullChunks * (n + 2)) |->
                IF (k - 1) % (n + 2) = 0 THEN n + 1
                ELSE IF (k - 1) % (n + 2) = 1 THEN 128
                ELSE data[n * ((k - 1) \div (n + 2)) + ((k - 1) % (n + 2)) - 1]])
            \o <<(Len(data) % n) + 1, 128>> \o SubSeq(data, fullChunks * n + 1, Len(data))
        pushed(data) == head \o blocks(data, Len(data) \div n) \o <<1, 129, 0, 59>>
        bit(cells) == AsSeq([k \in 1..Len(cells) |-> IF cells[k].cur = TRUE THEN 1 ELSE 0])
    IN pushed(bit(rectRead(b, [x |-> 0, y |-> 0], Whole)))

N == 126       \* const N = 126; // Block size

\* toGIF with N = 127
toGIFLongBlocks(b) == gifBytes(b, N + 1)

\* Bitmap.toGIF
toGIF(b) == gifBytes(b, N)

\* one word, a word and a bit in either direction, more than a word both
\* ways, a multiple of the block of a GIF and a cell more, a width of two bytes
ShapeDims ==
    {[height |-> 1, width |-> 1], [height |-> 2, width |-> 3],
     [height |-> 2, width |-> 33], [height |-> 33, width |-> 2],
     [height |-> 32, width |-> 32], [height |-> 35, width |-> 34],
     [height |-> 9, width |-> 14], [height |-> 1, width |-> 127],
     [height |-> 12, width |-> 21], [height |-> 1, width |-> 300]}

ShapeBitmaps ==
    {BitmapFromData(d.height, d.width, MixedData(d.height, d.width)) : d \in ShapeDims}
    \cup {BitmapFromData(d.height, d.width, DrawnData(d.height, d.width)) : d \in ShapeDims}

\* the largest accepted factor is tried on a single cell only
ScaleFactors(b) ==
    {Rational(n, 1) : n \in (-2)..MaxFactor} \cup {Rational(3, 2), Rational(1025, 1)}
    \cup (IF b.width * b.height = 1 THEN {Rational(1024, 1)} ELSE {})

InitShape ==
    /\ bm \in ShapeBitmaps
    /\ pre = bm /\ op = NoOp /\ ret = NoRet /\ steps = 0
    /\ rs = NoRS /\ qr = NoQR

Shape(call, result) ==
    /\ pre' = bm
    /\ op' = call
    /\ ret' = result
    /\ steps' = steps + 1
    /\ UNCHANGED <<bm, rs, qr>>

Scale ==
    /\ op.name = "new"
    /\ \E f \in ScaleFactors(bm) :
          Shape([name |-> "scale", factor |-> f],
                [NoRet EXCEPT !.kind = "bitmap", !.err = scaleCall(bm, f).err,
                              !.bitmap = scaleCall(bm, f).bitmap])

Transpose ==
    /\ op.name = "new"
    /\ Shape([name |-> "transpose"],
             [NoRet EXCEPT !.kind = "bitmap", !.bitmap = transpose(bm)])

\* b.transpose().transpose()
TransposeBack ==
    /\ op.name = "transpose"
    /\ Shape([name |-> "transpose twice"],
             [NoRet EXCEPT !.kind = "bitmap", !.bitmap = transpose(ret.bitmap)])

ToGIF ==
    /\ op.name = "new"
    /\ Shape([name |-> "toGIF"], [NoRet EXCEPT !.kind = "bytes", !.bytes = toGIF(bm)])

NextShape == Scale \/ Transpose \/ TransposeBack \/ ToGIF

SpecShape == InitShape /\ [][NextShape]_vars

\* C12 as stated: scale(f) fails unless f is an integer in 1..1024, and for an
\* accepted f the result has f times the height and width, each cell in the
\* state of the source cell it was scaled from.
C12_ScaleContract ==
    op.name = "scale" =>
        IF isSafeInteger(op.factor) /\ op.factor.num \div op.factor.den \in 1..1024
        THEN LET f == op.factor.num \div op.factor.den
             IN /\ ret.err = ""
                /\ ret.bitmap.height = f * bm.height
                /\ ret.bitmap.width = f * bm.width
                /\ \A x \in 0..(f * bm.width - 1), y \in 0..(f * bm.height - 1) :
                      get(ret.bitmap, x, y) = get(bm, x \div f, y \div f)
        ELSE ret.err # ""

\* C13: transpose returns a W x H bitmap with dst[x, y] = src[y, x] on both
\* planes, for widths and heights that are no multiples of 32 and larger than
\* 32 as well, and transposing twice gives the dimensions and cells back.
C13_Transpose ==
    /\ op.name = "transpose" =>
          /\ ret.bitmap.height = bm.width /\ ret.bitmap.width = bm.height
          /\ \A x \in 0..(bm.width - 1), y \in 0..(bm.height - 1) :
                /\ isDefined(ret.bitmap, y, x) = isDefined(bm, x, y)
                /\ get(ret.bitmap, y, x) = get(bm, x, y)
    /\ op.name = "transpose twice" =>
          /\ ret.bitmap.height = bm.height /\ ret.bitmap.width = bm.width
          /\ \A x \in 0..(bm.width - 1), y \in 0..(bm.height - 1) : SameCell(ret.bitmap, bm, x, y)

\* a 35 x 34 bitmap with unset cells, transposed twice
C13_Witness ==
    /\ op.name = "transpose twice"
    /\ bm.height = 35 /\ bm.width = 34
    /\ \E x \in 0..33, y \in 0..34 : ~isDefined(bm, x, y)
    /\ ret.bitmap.words = 2 /\ ret.bitmap.height = 35

\* C11 as stated for the Bitmap calls: after rect, rectRead, rectSlice, embed,
\* hLine and vLine the caller's Point and Size objects hold the field values
\* they held before the call.
C11_ArgumentsUnchanged ==
    op.name \in RegionCalls =>
        /\ ret.point = [x |-> op.x, y |-> op.y]
        /\ ret.size = [width |-> op.width, height |-> op.height]

(***************************************************************************)
(* decodeQR(img, opts), statement by statement.  The callbacks of opts are *)
(* code of the caller: each is absent, a function that returns, a function *)
(* that throws, or no function at all.  detect and decodeBitmap either     *)
(* return or throw; which of the two is a function of the pixels that is   *)
(* not computed here, so both outcomes are taken for every bitmap.         *)
(***************************************************************************)
OptFunction == {"function", "throwing function"}
OptCallback == {"undefined", "number"} \cup OptFunction
OptBoolean == {"undefined", "true", "false", "number"}
CallbackNames == <<"pointsOnDetect", "imageOnBitmap", "imageOnDetect", "imageOnResult">>

\* the statements of decodeQR with imageOnResult called before decodeBitmap
afterResultEarly(stmt) ==
    CASE stmt = "validate" -> "cropToSquare"
      [] stmt = "cropToSquare" -> "toBitmap"
      [] stmt = "toBitmap" -> "imageOnBitmap"
      [] stmt = "imageOnBitmap" -> "detect"
      [] stmt = "detect" -> "pointsOnDetect"
      [] stmt = "pointsOnDetect" -> "imageOnDetect"
      [] stmt = "imageOnDetect" -> "imageOnResult"
      [] stmt = "imageOnResult" -> "decodeBitmap"
      [] stmt = "decodeBitmap" -> "return"
      [] OTHER -> "returned"

\* the statement of decodeQR that follows stmt
after(stmt) ==
    CASE stmt = "validate" -> "cropToSquare"
      [] stmt = "cropToSquare" -> "toBitmap"
      [] stmt = "toBitmap" -> "imageOnBitmap"
      [] stmt = "imageOnBitmap" -> "detect"
      [] stmt = "detect" -> "pointsOnDetect"
      [] stmt = "pointsOnDetect" -> "imageOnDetect"
      [] stmt = "imageOnDetect" -> "decodeBitmap"
      [] stmt = "decodeBitmap" -> "imageOnResult"
      [] stmt = "imageOnResult" -> "return"
      [] OTHER -> "returned"

NoCall == [pc |-> "validate", img |-> [height |-> 0, width |-> 0, data |-> <<>>],
           opts |-> [cropToSquare |-> "undefined", pointsOnDetect |-> "undefined",
                     imageOnBitmap |-> "undefined", imageOnDetect |-> "undefined",
                     imageOnResult |-> "undefined"],
           offset |-> [x |-> 0, y |-> 0], log |-> <<>>, err |-> "", at |-> "", res |-> ""]

\* throw new Error(msg): the call ends at this statement
thrown(q, msg) == [q EXCEPT !.pc = "thrown", !.err = msg, !.at = q.pc]

\* the statement is done; a phase that returned, or a callback that was
\* called, is entered in the log
passed(q, entry) == [q EXCEPT !.pc = after(q.pc), !.log = q.log \o entry]

\* the four checks at the head of decodeQR, in their order
validateError(img, opts) ==
    LET wrong == {i \in 1..4 : opts[CallbackNames[i]] \notin {"undefined"} \cup OptFunction}
        first == CHOOSE i \in wrong : \A j \in wrong : i <= j
    IN IF img.height <= 0 THEN "Wrong img.height"
       ELSE IF img.width <= 0 THEN "Wrong img.width"
       ELSE IF opts.cropToSquare \notin {"undefined", "true", "false"}
       THEN "Wrong opts.cropToSquare"
       ELSE IF wrong # {} THEN "Wrong opts." \o CallbackNames[first]
       ELSE ""

Step(q) == qr' = q /\ Others

DecodeValidate ==
    /\ qr.pc = "validate"
    /\ Step(IF validateError(qr.img, qr.opts) # ""
            THEN thrown(qr, validateError(qr.img, qr.opts)) ELSE passed(qr, <<>>))

\* if (opts.cropToSquare) ({ img, offset } = cropToSquare(img))
DecodeCrop ==
    /\ qr.pc = "cropToSquare"
    /\ LET crop(c) == IF c.err # "" THEN thrown(qr, c.err)
                      ELSE [passed(qr, <<>>) EXCEPT !.img = c.img, !.offset = c.offset]
       IN Step(IF qr.opts.cropToSquare = "true" THEN crop(cropToSquare(qr.img))
               ELSE passed(qr, <<>>))

\* const bmp = toBitmap(img)
DecodeToBitmap ==
    /\ qr.pc = "toBitmap"
    /\ LET made(bmp) == IF bmp.err # "" THEN thrown(qr, bmp.err)
                        ELSE passed(qr, <<"toBitmap">>)
       IN Step(made(toBitmap(qr.img)))

\* if (opts[name]) opts[name](...): the call, and what it throws
callback(q, name) ==
    IF q.opts[name] = "undefined" THEN passed(q, <<>>)
    ELSE IF q.opts[name] = "function" THEN passed(q, <<name>>)
    ELSE [thrown(q, "error of the callback") EXCEPT !.log = q.log \o <<name>>]

ImageOnBitmap ==
    /\ qr.pc = "imageOnBitmap"
    /\ Step(callback(qr, "imageOnBitmap"))

PointsOnDetect ==
    /\ qr.pc = "pointsOnDetect"
    /\ Step(callback(qr, "pointsOnDetect"))

ImageOnDetect ==
    /\ qr.pc = "imageOnDetect"
    /\ Step(callback(qr, "imageOnDetect"))

ImageOnResult ==
    /\ qr.pc = "imageOnResult"
    /\ Step(callback(qr, "imageOnResult"))

\* const { bits, points } = detect(bmp)
DecodeDetect ==
    /\ qr.pc = "detect"
    /\ \E found \in BOOLEAN :
          Step(IF found THEN passed(qr, <<"detect">>) ELSE thrown(qr, "Finder: len(found) = 0"))

\* const res = decodeBitmap(bits)
DecodeDecodeBitmap ==
    /\ qr.pc = "decodeBitmap"
    /\ \E decoded \in BOOLEAN :
          Step(IF decoded THEN [passed(qr, <<"decodeBitmap">>) EXCEPT !.res = "text"]
               ELSE thrown(qr, "decode: wrong size"))

\* return res
DecodeReturn ==
    /\ qr.pc = "return"
    /\ Step([qr EXCEPT !.pc = "returned"])

NextDecode ==
    \/ DecodeValidate \/ DecodeCrop \/ DecodeToBitmap \/ ImageOnBitmap \/ DecodeDetect
    \/ PointsOnDetect \/ ImageOnDetect \/ DecodeDecodeBitmap \/ ImageOnResult
    \/ DecodeReturn

\* a gray RGB image
Gray(height, width) == [height |-> height, width |-> width,
                        data |-> Repeat(128, 3 * height * width)]

\* five blocks each way; a row short of it; a rectangle whose square is large
\* enough; a rectangle whose square is not; no rows; two bytes per pixel
DecodeImages ==
    LET block == GRAYSCALE_BLOCK_SIZE
    IN {Gray(5 * block, 5 * block), Gray(5 * block - 1, 5 * block),
        Gray(6 * block, 5 * block), Gray(4 * block, 8 * block), Gray(0, 5 * block),
        [height |-> 5 * block, width |-> 5 * block,
         data |-> Repeat(128, 2 * 25 * block * block)]}

\* every set of callbacks; all four with one that throws; all four with one
\* that is no function
DecodeOpts ==
    LET given == [n \in {CallbackNames[i] : i \in 1..4} |-> "function"]
        some == [{CallbackNames[i] : i \in 1..4} -> {"undefined", "function"}]
        one == {[given EXCEPT ![CallbackNames[i]] = k] :
                   i \in 1..4, k \in {"throwing function", "number"}}
    IN {[cropToSquare |-> c, pointsOnDetect |-> o.pointsOnDetect,
         imageOnBitmap |-> o.imageOnBitmap, imageOnDetect |-> o.imageOnDetect,
         imageOnResult |-> o.imageOnResult] : c \in OptBoolean, o \in some \cup one}

InitDecode ==
    /\ bm = NoBitmap /\ pre = NoBitmap /\ op = NoOp /\ ret = NoRet /\ steps = 0
    /\ rs = NoRS
    /\ \E img \in DecodeImages, opts \in DecodeOpts :
          qr = [NoCall EXCEPT !.img = img, !.opts = opts]

SpecDecode == InitDecode /\ [][NextDecode]_vars

\* the phase whose result a callback is given
phaseOf(name) ==
    CASE name = "imageOnBitmap" -> "toBitmap"
      [] name = "pointsOnDetect" -> "detect"
      [] name = "imageOnDetect" -> "detect"
      [] name = "imageOnResult" -> "decodeBitmap"

\* C14: in every run of decodeQR the callbacks are called at most once each
\* and in the order imageOnBitmap, pointsOnDetect, imageOnDetect,
\* imageOnResult; a callback is called only after its phase has returned; when
\* a phase throws, the error is what the caller gets, no text is returned, the
\* callbacks of the phases that returned have been called and those of the
\* later phases (imageOnResult among them) have not.
C14_CallbackOrder ==
    LET order == <<"imageOnBitmap", "pointsOnDetect", "imageOnDetect", "imageOnResult">>
        rank(name) == CHOOSE i \in 1..4 : order[i] = name
        isCallback(e) == \E i \in 1..4 : order[i] = e
        fired == SelectSeq(qr.log, isCallback)
        given == {order[i] : i \in {j \in 1..4 : qr.opts[order[j]] \in OptFunction}}
        called == {fired[i] : i \in 1..Len(fired)}
        returned == {qr.log[i] : i \in 1..Len(qr.log)} \ called
    IN /\ \A i, j \in 1..Len(fired) : i < j => rank(fired[i]) < rank(fired[j])
       /\ \A i \in 1..Len(qr.log) :
             isCallback(qr.log[i]) => \E j \in 1..(i - 1) : qr.log[j] = phaseOf(qr.log[i])
       /\ called \subseteq given
       /\ (qr.pc = "thrown" /\ qr.at \in {"validate", "cropToSquare", "toBitmap", "detect", "decodeBitmap"}) =>
             /\ qr.err # "" /\ qr.res = ""
             /\ qr.at \notin returned
             /\ \A name \in given : name \in called <=> phaseOf(name) \in returned
             /\ "imageOnResult" \notin called
       /\ qr.pc = "returned" =>
             /\ qr.err = "" /\ qr.res # ""
             /\ called = given

\* decodeBitmap throws after detect returned, all four callbacks given and
\* the image cropped to its square
C14_Witness ==
    /\ qr.pc = "thrown" /\ qr.at = "decodeBitmap"
    /\ qr.opts.cropToSquare = "true" /\ qr.offset.y > 0
    /\ qr.opts.imageOnResult = "function"
    /\ qr.log = <<"toBitmap", "imageOnBitmap", "detect", "pointsOnDetect", "imageOnDetect">>

(***************************************************************************)
(* The segments of decodeBitmap: the loop that reads a mode, a count and   *)
(* the characters of one segment from the bit string of the data           *)
(* codewords.  A text is a sequence of code points.                        *)
(***************************************************************************)
\* Number(`0b${n}`) of a bit string that is not empty
toNum(n) == Sum([i \in 1..Len(n) |-> n[i] * 2^(Len(n) - i)])

\* modes: the reverse of info.modeBits, with the terminator
modes(modeBits) ==
    CASE modeBits = <<0, 0, 0, 0>> -> "terminator"
      [] modeBits = <<0, 0, 0, 1>> -> "numeric"
      [] modeBits = <<0, 0, 1, 0>> -> "alphanumeric"
      [] modeBits = <<0, 1, 0, 0>> -> "byte"
      [] modeBits = <<0, 1, 1, 1>> -> "eci"
      [] modeBits = <<1, 0, 0, 0>> -> "kanji"
      [] OTHER -> "undefined"

\* modes with the ECI mode left out of the table
modesNoECI(modeBits) ==
    IF modeBits = <<0, 1, 1, 1>> THEN "undefined" ELSE modes(modeBits)

\* v.toString().padStart(n, '0') for v < 10^n
padStart(v, n) == AsSeq([i \in 1..n |-> 48 + ((v \div 10^(n - i)) % 10)])

\* the characters of UTF-8 of up to three bytes a character; a byte that
\* begins no such character becomes U+FFFD
RECURSIVE utf8Chars(_)
utf8Chars(b) ==
    LET cont(i) == i <= Len(b) /\ b[i] \div 64 = 2
        rest(n) == utf8Chars(SubSeq(b, n + 1, Len(b)))
    IN IF b = <<>> THEN <<>>
       ELSE IF b[1] < 128 THEN <<b[1]>> \o rest(1)
       ELSE IF b[1] \in 194..223 /\ cont(2)
       THEN <<(b[1] % 32) * 64 + (b[2] % 64)>> \o rest(2)
       ELSE IF /\ b[1] \in 224..239 /\ cont(2) /\ cont(3)
               /\ (b[1] = 224 => b[2] >= 160) /\ (b[1] = 237 => b[2] < 160)
       THEN <<(b[1] % 16) * 4096 + (b[2] % 64) * 64 + (b[3] % 64)>> \o rest(3)
       ELSE <<65533>> \o rest(1)

\* new TextDecoder().decode(bytes): ignoreBOM is false, so a byte order mark
\* (EF BB BF) at the start of the bytes is not part of the text
TextDecoder_decode(b) ==
    IF Len(b) >= 3 /\ SubSeq(b, 1, 3) = <<239, 187, 191>>
    THEN utf8Chars(SubSeq(b, 4, Len(b)))
    ELSE utf8Chars(b)

\* utf8ToBytes(text) for code points below 65536
utf8ToBytes(text) ==
    LET bytesOf(c) == IF c < 128 THEN <<c>>
                      ELSE IF c < 2048 THEN <<192 + (c \div 64), 128 + (c % 64)>>
                      ELSE <<224 + (c \div 4096), 128 + ((c \div 64) % 64), 128 + (c % 64)>>
        RECURSIVE all(_)
        all(t) == IF t = <<>> THEN <<>> ELSE bytesOf(Head(t)) \o all(Tail(t))
    IN all(text)

Parsed(err, bits, res, done) == [err |-> err, bits |-> bits, res |-> res, done |-> done]
Drop(bits, n) == SubSeq(bits, n + 1, Len(bits))

\* the numeric branch: three digits of 10 bits, then two of 7 or one of 4
RECURSIVE readNumeric(_, _, _)
readNumeric(bits, count, res) ==
    LET width == IF count >= 3 THEN 10 ELSE IF count = 2 THEN 7 ELSE 4
        digits == Min(count, 3)
        v == toNum(SubSeq(bits, 1, width))
    IN IF count = 0 THEN Parsed("", bits, res, FALSE)
       ELSE IF width > Len(bits) THEN Parsed("Not enough bits", bits, res, TRUE)
       ELSE IF v >= 10^digits THEN Parsed("numeric: wrong group", bits, res, TRUE)
       ELSE readNumeric(Drop(bits, width), count - digits, res \o padStart(v, digits))

\* the alphanumeric branch: two letters of 11 bits, then one of 6
RECURSIVE readAlphanumeric(_, _, _)
readAlphanumeric(bits, count, res) ==
    LET width == IF count >= 2 THEN 11 ELSE 6
        v == toNum(SubSeq(bits, 1, width))
        digits == IF count >= 2 THEN <<v \div 45, v % 45>> ELSE <<v>>
    IN IF count = 0 THEN Parsed("", bits, res, FALSE)
       ELSE IF width > Len(bits) THEN Parsed("Not enough bits", bits, res, TRUE)
       ELSE IF \E i \in 1..Len(digits) : digits[i] >= Len(AlphanumericChars)
       THEN Parsed("Digit index outside alphabet", bits, res, TRUE)
       ELSE readAlphanumeric(Drop(bits, width), count - Len(digits),
                res \o AsSeq([i \in 1..Len(digits) |-> AlphanumericChars[digits[i] + 1]]))

\* the byte branch: count bytes of 8 bits, decoded as UTF-8
readByte(bits, count, res) ==
    IF 8 * count > Len(bits) THEN Parsed("Not enough bits", bits, res, TRUE)
    ELSE Parsed("", Drop(bits, 8 * count),
                res \o TextDecoder_decode(AsSeq([i \in 1..count |->
                           toNum(SubSeq(bits, 8 * i - 7, 8 * i))])), FALSE)

\* one turn of the while (true) loop of decodeBitmap: the bits and the text
\* after it, whether the loop has ended, and the error thrown
readSegment(ver, bits, res) ==
    LET mode == modes(SubSeq(bits, 1, 4))
        body == Drop(bits, 4)
        counted(countBits) ==
            IF countBits > Len(body) THEN Parsed("Not enough bits", body, res, TRUE)
            ELSE IF mode = "numeric"
            THEN readNumeric(Drop(body, countBits), toNum(SubSeq(body, 1, countBits)), res)
            ELSE IF mode = "alphanumeric"
            THEN readAlphanumeric(Drop(body, countBits), toNum(SubSeq(body, 1, countBits)), res)
            ELSE IF mode = "byte"
            THEN readByte(Drop(body, countBits), toNum(SubSeq(body, 1, countBits)), res)
            ELSE Parsed("Unknown mode=" \o mode, Drop(body, countBits), res, TRUE)
    IN IF Len(bits) < 4 THEN Parsed("", bits, res, TRUE)
       ELSE IF mode = "undefined" THEN Parsed("Unknown modeBits", body, res, TRUE)
       ELSE IF mode = "terminator" THEN Parsed("", body, res, TRUE)
       ELSE counted(info_lengthBits(ver, mode))

\* the loop of decodeBitmap, one segment a step
ReadSegment ==
    /\ qr.pc = "segments"
    /\ Others
    /\ LET read(p) == [qr EXCEPT !.bits = p.bits, !.res = p.res, !.err = p.err,
                                 !.read = qr.read + 1,
                                 !.pc = IF p.err # "" THEN "thrown"
                                        ELSE IF p.done THEN "returned" ELSE "segments"]
       IN qr' = read(readSegment(qr.version, qr.bits, qr.res))

NextSegments == ReadSegment

\* the bits of a segment as encode() writes them; an ECI header is the mode
\* and a designator of 8 bits; bits of no segment are taken as they are
Segment(type, text) == [type |-> type, text |-> text]
segmentBits(ver, seg) ==
    IF seg.type = "eci" THEN info_modeBits.eci \o bin(seg.text[1], 8)
    ELSE IF seg.type = "bits" THEN seg.text
    ELSE LET data == IF seg.type = "byte" THEN utf8ToBytes(seg.text) ELSE seg.text
         IN info_modeBits[seg.type] \o bin(Len(data), info_lengthBits(ver, seg.type))
            \o encodePayload(data, seg.type)

RECURSIVE streamBits(_, _)
streamBits(ver, segs) ==
    IF segs = <<>> THEN <<>> ELSE segmentBits(ver, Head(segs)) \o streamBits(ver, Tail(segs))

ECIDesignators == {3, 26}    \* ISO-8859-1 and UTF-8
SegmentVersions == {1, 10, 27}
\* "Hi", "Latin1 (R)AE", "Omega Euro", digits, letters
ByteTexts == {<<72, 105>>, <<174, 196>>, <<937, 8364>>}
TextSegments ==
    {Segment("byte", t) : t \in ByteTexts}
    \cup {Segment("numeric", t) : t \in {<<48, 49, 50, 51>>, <<55, 56>>}}
    \cup {Segment("alphanumeric", t) : t \in {<<65, 49, 58>>}}
\* the end of the bits, the terminator, the terminator and padding
Terminators == {<<>>, <<0, 0, 0, 0>>, <<0, 0, 0, 0, 0, 0, 1, 1, 1, 0, 1, 1, 0, 0>>}
\* a mode of no segment, a segment of no reader, a count without its bytes
Endings ==
    Terminators
    \cup {<<0, 0, 1, 1>>, <<1, 0, 0, 0, 0, 0, 0, 0, 0, 0, 0, 1>>, <<0, 1, 0, 0, 0, 0>>}

\* streams of one or two segments, with and without an ECI header in front,
\* followed by the terminator, the padding, or bits of no known segment
SegmentStreams ==
    LET texts == {<<s>> : s \in TextSegments}
                 \cup {<<s, t>> : s, t \in {Segment("byte", b) : b \in ByteTexts}}
        headed == {<<Segment("eci", <<d>>)>> \o t : d \in ECIDesignators, t \in texts}
    IN {[segs |-> t, ending |-> e] : t \in texts \cup headed, e \in Endings}

InitSegments ==
    /\ bm = NoBitmap /\ pre = NoBitmap /\ op = NoOp /\ ret = NoRet /\ steps = 0
    /\ rs = NoRS
    /\ \E ver \in SegmentVersions, s \in SegmentStreams :
          qr = [pc |-> "segments", version |-> ver, given |-> s.segs,
                ending |-> s.ending,
                bits |-> streamBits(ver, s.segs) \o s.ending, res |-> <<>>, err |-> "",
                read |-> 0]

SpecSegments == InitSegments /\ [][NextSegments]_vars

\* the text of the segments of a stream
RECURSIVE textOf(_)
textOf(segs) ==
    IF segs = <<>> THEN <<>>
    ELSE (IF Head(segs).type = "eci" THEN <<>> ELSE Head(segs).text) \o textOf(Tail(segs))

\* C15 as stated: a bit stream of an ECI header (mode 0111) followed by byte
\* segments and the terminator (or the end of the bits) is read without an error, and the text returned
\* is the text of the segments after the header.
C15_ECIDecoded ==
    (/\ qr.pc \in {"returned", "thrown"}
     /\ qr.given[1].type = "eci"
     /\ \A i \in 2..Len(qr.given) : qr.given[i].type = "byte"
     /\ qr.ending \in Terminators)
        => qr.pc = "returned" /\ qr.res = textOf(qr.given)

(***************************************************************************)
(* The tables of info: calls of formatBits, versionBits, capacity and      *)
(* alignmentPatterns for every error correction level, mask and version,   *)
(* and the tables and the long division the tests compare them with.       *)
(***************************************************************************)
Versions == 1..40
Masks == 0..7
ECLevels == {ECMode[i] : i \in 1..4}

NoInfo == [name |-> "none", ecc |-> "low", maskIdx |-> 0, ver |-> 1, bits |-> 0,
           capacity |-> info_capacity(1, "low"), patterns |-> <<>>]

InitInfo ==
    /\ bm = NoBitmap /\ pre = NoBitmap /\ op = NoOp /\ ret = NoRet /\ steps = 0
    /\ rs = NoRS
    /\ qr = NoInfo

\* info.formatBits(ecc, maskIdx)
FormatBits ==
    /\ Others
    /\ \E ecc \in ECLevels, maskIdx \in Masks :
          qr' = [NoInfo EXCEPT !.name = "formatBits", !.ecc = ecc, !.maskIdx = maskIdx,
                               !.bits = info_formatBits(ecc, maskIdx)]

\* info.versionBits(ver)
VersionBits ==
    /\ Others
    /\ \E ver \in Versions :
          qr' = [NoInfo EXCEPT !.name = "versionBits", !.ver = ver,
                               !.bits = info_versionBits(ver)]

\* info.capacity(ver, ecc)
Capacity ==
    /\ Others
    /\ \E ver \in Versions, ecc \in ECLevels :
          qr' = [NoInfo EXCEPT !.name = "capacity", !.ver = ver, !.ecc = ecc,
                               !.capacity = info_capacity(ver, ecc)]

\* info.alignmentPatterns(ver)
AlignmentPatterns ==
    /\ Others
    /\ \E ver \in Versions :
          qr' = [NoInfo EXCEPT !.name = "alignmentPatterns", !.ver = ver,
                               !.patterns = info_alignmentPatterns(ver)]

NextInfo == FormatBits \/ VersionBits \/ Capacity \/ AlignmentPatterns

SpecInfo == InitInfo /\ [][NextInfo]_vars

\* the number of bit positions in which two codes differ
HammingDistance(a, b) == Cardinality({i \in 0..17 : (a \div 2^i) % 2 # (b \div 2^i) % 2})

\* C16: a format code differs from the format code of every other pair of
\* level and mask in at least 7 bit positions, and the version code of a version
\* from 7 to 40 differs from that of every other such version in at least 8.
C16_CodeDistance ==
    /\ qr.name = "formatBits" =>
          /\ qr.bits \in 0..(2^15 - 1)
          /\ \A ecc \in ECLevels, maskIdx \in Masks :
                <<ecc, maskIdx>> # <<qr.ecc, qr.maskIdx>>
                    => HammingDistance(qr.bits, info_formatBits(ecc, maskIdx)) >= 7
    /\ (qr.name = "versionBits" /\ qr.ver >= 7) =>
          /\ qr.bits \in 0..(2^18 - 1)
          /\ \A ver \in 7..40 :
                ver # qr.ver => HammingDistance(qr.bits, info_versionBits(ver)) >= 8

\* two format codes exactly 7 positions apart, two version codes exactly 8
C16_Witness ==
    \/ /\ qr.name = "formatBits" /\ qr.ecc = "high" /\ qr.maskIdx = 7
       /\ \E ecc \in ECLevels, maskIdx \in Masks :
             HammingDistance(qr.bits, info_formatBits(ecc, maskIdx)) = 7
    \/ /\ qr.name = "versionBits" /\ qr.ver = 40
       /\ \E ver \in 7..39 : HammingDistance(qr.bits, info_versionBits(ver)) = 8

\* BCH_digit of the tests: the number of bits of data
BCH_digit(data) == IF data = 0 THEN 0 ELSE CHOOSE n \in 1..31 : 2^(n - 1) <= data /\ data < 2^n

\* the while loop of BCH_type_info and BCH_type_number: the remainder of d
\* divided by the polynomial g over GF(2)
RECURSIVE BCH_remainder(_, _)
BCH_remainder(d, g) ==
    IF BCH_digit(d) - BCH_digit(g) >= 0
    THEN BCH_remainder(XorBits(d, g * 2^(BCH_digit(d) - BCH_digit(g)), 31), g)
    ELSE d

G15 == 2^10 + 2^8 + 2^5 + 2^4 + 2^2 + 2^1 + 2^0
G15_MASK == 2^14 + 2^12 + 2^10 + 2^4 + 2^1
G18 == 2^12 + 2^11 + 2^10 + 2^9 + 2^8 + 2^5 + 2^2 + 2^0

BCH_type_info(data) == XorBits(data * 2^10 + BCH_remainder(data * 2^10, G15), G15_MASK, 15)
BCH_type_number(data) == data * 2^12 + BCH_remainder(data * 2^12, G18)

\* VECTORS of the versionBits test, versions 7 to 40
VersionVectors ==
    <<
      31892, 34236, 39577, 42195, 48118, 51042, 55367, 58893, 63784, 68472, 70749, 76311,
      79154, 84390, 87683, 92361, 96236, 102084, 102881, 110507, 110734, 117786, 119615,
      126325, 127568, 133589, 136944, 141498, 145311, 150283, 152622, 158308, 161089,
      167017
    >>

\* C17: formatBits(ecc, mask) is the code the long division of the tests
\* gives for data = (ECCode << 3) | mask, polynomial 0b10100110111 and mask
\* 0b101010000010010; versionBits(v) is the code it gives for polynomial
\* 0b1111100100101, and for versions 7 to 40 the vector of the tests.
C17_ReferenceBCH ==
    /\ qr.name = "formatBits" =>
          /\ G15 = 1335 /\ G15_MASK = 21522
          /\ qr.bits = BCH_type_info(info_ECCode[qr.ecc] * 8 + qr.maskIdx)
    /\ qr.name = "versionBits" =>
          /\ G18 = 7973
          /\ qr.bits = BCH_type_number(qr.ver)
          /\ qr.ver >= 7 => qr.bits = VersionVectors[qr.ver - 6]

\* versionBits(40) = 0x28c69
C17_Witness == qr.name = "versionBits" /\ qr.ver = 40 /\ qr.bits = 167017

\* VECTORS of the bitLimit test
BitLimit ==
    [low |-> <<
         152, 272, 440, 640, 864, 1088, 1248, 1552, 1856, 2192, 2592, 2960, 3424, 3688,
         4184, 4712, 5176, 5768, 6360, 6888, 7456, 8048, 8752, 9392, 10208, 10960, 11744,
         12248, 13048, 13880, 14744, 15640, 16568, 17528, 18448, 19472, 20528, 21616,
         22496, 23648
     >>,
     medium |-> <<
         128, 224, 352, 512, 688, 864, 992, 1232, 1456, 1728, 2032, 2320, 2672, 2920,
         3320, 3624, 4056, 4504, 5016, 5352, 5712, 6256, 6880, 7312, 8000, 8496, 9024,
         9544, 10136, 10984, 11640, 12328, 13048, 13800, 14496, 15312, 15936, 16816,
         17728, 18672
     >>,
     quartile |-> <<
         104, 176, 272, 384, 496, 608, 704, 880, 1056, 1232, 1440, 1648, 1952, 2088,
         2360, 2600, 2936, 3176, 3560, 3880, 4096, 4544, 4912, 5312, 5744, 6032, 6464,
         6968, 7288, 7880, 8264, 8920, 9368, 9848, 10288, 10832, 11408, 12016, 12656,
         13328
     >>,
     high |-> <<
         72, 128, 208, 288, 368, 480, 528, 688, 800, 976, 1120, 1264, 1440, 1576, 1784,
         2024, 2264, 2504, 2728, 3080, 3248, 3536, 3712, 4112, 4304, 4768, 5024, 5288,
         5608, 5960, 6344, 6760, 7208, 7688, 7888, 8432, 8768, 9136, 9776, 10208
     >>]

\* C18: capacity(v, ecc).capacity is the bit limit of the table, and it is 8
\* times the data bytes of the blocks: shortBlocks blocks of blockLen bytes
\* and numBlocks - shortBlocks blocks of blockLen + 1, with shortBlocks =
\* numBlocks - (codewords of the version mod numBlocks).
C18_Capacity ==
    qr.name = "capacity" =>
        LET c == qr.capacity
        IN /\ c.capacity = BitLimit[qr.ecc][qr.ver]
           /\ c.shortBlocks = c.numBlocks - (BYTES[qr.ver] % c.numBlocks)
           /\ c.shortBlocks \in 1..c.numBlocks /\ c.blockLen > 0
           /\ c.capacity = 8 * (c.shortBlocks * c.blockLen
                                + (c.numBlocks - c.shortBlocks) * (c.blockLen + 1))

\* version 40, high: 81 blocks, short and long ones; 10208 bits
C18_Witness ==
    /\ qr.name = "capacity" /\ qr.ver = 40 /\ qr.ecc = "high"
    /\ qr.capacity.capacity = 10208
    /\ qr.capacity.shortBlocks \in 1..(qr.capacity.numBlocks - 1)

\* ALIGNMENT_PATTERN_POSITIONS of the tests
ALIGNMENT_PATTERN_POSITIONS ==
    <<
      <<>>, <<6, 18>>, <<6, 22>>, <<6, 26>>, <<6, 30>>, <<6, 34>>, <<6, 22, 38>>,
      <<6, 24, 42>>, <<6, 26, 46>>, <<6, 28, 50>>, <<6, 30, 54>>, <<6, 32, 58>>,
      <<6, 34, 62>>, <<6, 26, 46, 66>>, <<6, 26, 48, 70>>, <<6, 26, 50, 74>>,
      <<6, 30, 54, 78>>, <<6, 30, 56, 82>>, <<6, 30, 58, 86>>, <<6, 34, 62, 90>>,
      <<6, 28, 50, 72, 94>>, <<6, 26, 50, 74, 98>>, <<6, 30, 54, 78, 102>>,
      <<6, 28, 54, 80, 106>>, <<6, 32, 58, 84, 110>>, <<6, 30, 58, 86, 114>>,
      <<6, 34, 62, 90, 118>>, <<6, 26, 50, 74, 98, 122>>, <<6, 30, 54, 78, 102, 126>>,
      <<6, 26, 52, 78, 104, 130>>, <<6, 30, 56, 82, 108, 134>>,
      <<6, 34, 60, 86, 112, 138>>, <<6, 30, 58, 86, 114, 142>>,
      <<6, 34, 62, 90, 118, 146>>, <<6, 30, 54, 78, 102, 126, 150>>,
      <<6, 24, 50, 76, 102, 128, 154>>, <<6, 28, 54, 80, 106, 132, 158>>,
      <<6, 32, 58, 84, 110, 136, 162>>, <<6, 26, 54, 82, 110, 138, 166>>,
      <<6, 30, 58, 86, 114, 142, 170>>
    >>

\* C19: alignmentPatterns(v) is the list of the table: empty for version 1,
\* otherwise strictly increasing from 6 to size(v) - 7.
C19_AlignmentPatterns ==
    qr.name = "alignmentPatterns" =>
        LET p == qr.patterns
        IN /\ p = ALIGNMENT_PATTERN_POSITIONS[qr.ver]
           /\ qr.ver = 1 => p = <<>>
           /\ qr.ver > 1 =>
                 /\ Len(p) >= 2 /\ p[1] = 6 /\ p[Len(p)] = info_size(qr.ver) - 7
                 /\ \A i \in 1..(Len(p) - 1) : p[i] < p[i + 1]

\* version 32, whose interval is rounded up by two
C19_Witness ==
    /\ qr.name = "alignmentPatterns" /\ qr.ver = 32
    /\ qr.patterns = <<6, 34, 60, 86, 112, 138>>

(***************************************************************************)
(* A reader of GIF87a for the streams of toGIF: the logical screen, the    *)
(* colour table, the image descriptor, the sub-blocks of the image data    *)
(* and the codes in them.  With a minimum code size of 7 the codes have 8  *)
(* bits, 0x80 clears the table and 0x81 ends the data; a literal after a   *)
(* clear code adds an entry to the table from the second one on, and the   *)
(* codes would grow to 9 bits with entry 256, the 126th after 0x82.        *)
(***************************************************************************)
GIFImageData == 6 + 4 + 3 + 3 * 128 + 10 + 1     \* the bytes before the sub-blocks

\* the sub-blocks from byte at on: where each begins (its size byte), up to
\* the block of size 0 or the end of the bytes
RECURSIVE subBlocks(_, _)
subBlocks(gif, at) ==
    IF at > Len(gif) \/ gif[at] = 0 THEN <<>>
    ELSE <<at>> \o subBlocks(gif, at + gif[at] + 1)

\* C20: the bytes of toGIF are a GIF87a of the width and height of the bitmap
\* with white as colour 0 and black as colour 1; every sub-block of the image
\* data but the last is a size byte of its literals plus one, the clear code
\* 0x80 and at most 126 literals; the literals of all of them are the cells of
\* the bitmap row by row, 1 for a dark cell and 0 otherwise; the last sub-block
\* is 0x01 0x81, and 0x00 0x3B end the stream.
C20_GIFStream ==
    op.name = "toGIF" =>
        LET gif == ret.bytes
            W == gif[7] + 256 * gif[8]
            H == gif[9] + 256 * gif[10]
            table == 2^((gif[11] % 8) + 1)
            starts == subBlocks(gif, GIFImageData + 1)
            last == starts[Len(starts)]
            count(i) == gif[starts[i]] - 1
            before(i) == Sum([j \in 1..(i - 1) |-> count(j)])
            cell(k) == IF get(bm, k % bm.width, k \div bm.width) THEN 1 ELSE 0
        IN /\ SubSeq(gif, 1, 6) = <<71, 73, 70, 56, 55, 97>>
           /\ W = bm.width /\ H = bm.height
           /\ gif[11] >= 128 /\ table = 128 /\ 13 + 3 * table + 11 = GIFImageData
           /\ SubSeq(gif, 14, 19) = <<255, 255, 255, 0, 0, 0>>
           /\ SubSeq(gif, 14 + 3 * table, GIFImageData)
                 = <<44, 0, 0, 0, 0>> \o SubSeq(gif, 7, 10) \o <<0, 7>>
           /\ Len(starts) >= 2
           /\ \A i \in 1..(Len(starts) - 1) :
                 /\ count(i) \in 0..126
                 /\ gif[starts[i] + 1] = 128
                 /\ \A k \in 1..count(i) :
                       gif[starts[i] + 1 + k] = cell(before(i) + k - 1)
           /\ before(Len(starts)) = bm.width * bm.height
           /\ SubSeq(gif, last, Len(gif)) = <<1, 129, 0, 59>>

\* a bitmap of two full blocks: 252 cells in two blocks of 126 literals and
\* one of none
C20_Witness ==
    /\ op.name = "toGIF" /\ bm.width * bm.height = 2 * N
    /\ \E x \in 0..(bm.width - 1), y \in 0..(bm.height - 1) : ~isDefined(bm, x, y)
    /\ Len(ret.bytes) = GIFImageData + 2 * (N + 2) + 2 + 4
    /\ ret.bytes[GIFImageData + 1] = N + 1
    /\ ret.bytes[GIFImageData + 2 * (N + 2) + 1] = 1

(***************************************************************************)
(* countBoxes2x2 on matrices with every cell defined: widths below, at and *)
(* above one and two words, as drawn and after negate, which sets the bits *)
(* of the value words behind the last column.                              *)
(***************************************************************************)
BoxWidths == {2, 3, 31, 32, 33, 34, 63, 64, 65}
BoxHeights == {2, 3}
BoxPatterns == 0..3

\* blocks of two by two cells, stripes of three columns, one colour, a scatter
BoxData(height, width, k) ==
    [y \in 1..height |-> [x \in 1..width |->
        IF CASE k = 0 -> (((x - 1) \div 2) + ((y - 1) \div 2)) % 2 = 0
             [] k = 1 -> ((x - 1) \div 3) % 2 = 0
             [] k = 2 -> TRUE
             [] OTHER -> (x * x + 3 * y) % 5 < 2
        THEN "dark" ELSE "light"]]

InitBoxes ==
    /\ \E h \in BoxHeights, w \in BoxWidths, k \in BoxPatterns :
          bm = BitmapFromData(h, w, BoxData(h, w, k))
    /\ pre = bm /\ op = NoOp /\ ret = NoRet /\ steps = 0
    /\ rs = NoRS /\ qr = NoQR

\* b.negate()
BoxNegate ==
    /\ steps = 0
    /\ bm' = negate(bm)
    /\ pre' = bm
    /\ op' = [name |-> "negate", y |-> 0]
    /\ ret' = NoRet
    /\ steps' = steps + 1
    /\ UNCHANGED <<rs, qr>>

\* b.countBoxes2x2(y), rows outside the matrix among them
CountBoxes2x2 ==
    /\ op.name # "countBoxes2x2"
    /\ \E y \in (-1)..bm.height :
          /\ op' = [name |-> "countBoxes2x2", y |-> y]
          /\ ret' = [NoRet EXCEPT !.kind = "count", !.count = countBoxes2x2(bm, y)]
    /\ pre' = bm
    /\ steps' = steps + 1
    /\ UNCHANGED <<bm, rs, qr>>

NextBoxes == BoxNegate \/ CountBoxes2x2

SpecBoxes == InitBoxes /\ [][NextBoxes]_vars

\* C30: on a matrix with every cell defined, countBoxes2x2(y) for a row y in
\* 0..H-2 is the number of x in 0..W-2 whose four cells (x, y), (x+1, y),
\* (x, y+1), (x+1, y+1) have one value, whatever the width and whether or not
\* the matrix was negated before.
C30_CountBoxes2x2 ==
    (op.name = "countBoxes2x2" /\ op.y \in 0..(bm.height - 2)) =>
        ret.count = Cardinality({x \in 0..(bm.width - 2) :
                        /\ get(bm, x, op.y) = get(bm, x + 1, op.y)
                        /\ get(bm, x, op.y) = get(bm, x, op.y + 1)
                        /\ get(bm, x, op.y) = get(bm, x + 1, op.y + 1)})

\* a negated matrix of 33 columns: the box of columns 31 and 32 lies across
\* two words and the bits behind column 32 are set
C30_Witness ==
    /\ op.name = "countBoxes2x2" /\ op.y = 0 /\ bm.width = 33
    /\ 1..31 \subseteq RdWord(bm.value, 1)
    /\ get(bm, 31, 0) = get(bm, 32, 0) /\ get(bm, 31, 1) = get(bm, 32, 1)
    /\ get(bm, 31, 0) = get(bm, 31, 1)
    /\ ret.count > 0

(***************************************************************************)
(* encode() up to its bit string, for texts of one, of the largest count   *)
(* that the capacity of a version and level holds, and of one character    *)
(* less and more.                                                          *)
(***************************************************************************)
AssembleTypes == {"numeric", "alphanumeric", "byte"}

\* the count of characters whose bits fill the room after mode and length
FitCount(ver, ecc, type) ==
    LET room == info_capacity(ver, ecc).capacity - 4 - info_lengthBits(ver, type)
    IN CASE type = "numeric" ->
              3 * (room \div 10) + (IF room % 10 >= 7 THEN 2 ELSE IF room % 10 >= 4 THEN 1 ELSE 0)
         [] type = "alphanumeric" -> 2 * (room \div 11) + (IF room % 11 >= 6 THEN 1 ELSE 0)
         [] OTHER -> room \div 8

\* digits, letters and digits, small letters
TextOf(type, n) ==
    CASE type = "numeric" -> Digits(n)
      [] type = "alphanumeric" -> AsSeq([i \in 1..n |-> IF i % 2 = 1 THEN 65 + (i % 26) ELSE 48 + (i % 10)])
      [] OTHER -> AsSeq([i \in 1..n |-> 97 + (i % 26)])

InitAssemble ==
    /\ bm = NoBitmap /\ pre = NoBitmap /\ op = NoOp /\ ret = NoRet /\ steps = 0
    /\ rs = NoRS
    /\ \E ver \in Versions, ecc \in ECLevels, type \in AssembleTypes :
          \E n \in {1, FitCount(ver, ecc, type) - 1, FitCount(ver, ecc, type),
                    FitCount(ver, ecc, type) + 1} :
             qr = [pc |-> "text", ver |-> ver, ecc |-> ecc, type |-> type, count |-> n,
                   out |-> [err |-> "", len |-> <<>>, head |-> <<>>, bits |-> <<>>]]

\* encode(ver, ecc, text, type) up to the padding loop
Assemble ==
    /\ qr.pc = "text"
    /\ Others
    /\ qr' = [qr EXCEPT !.pc = "assembled",
                        !.out = assemble(qr.ver, qr.ecc, TextOf(qr.type, qr.count), qr.type)]

NextAssemble == Assemble

SpecAssemble == InitAssemble /\ [][NextAssemble]_vars

\* the bytes 0xEC, 0x11, 0xEC, ... as n bits
PadBytes(n) == AsSeq([i \in 1..n |-> <<1, 1, 1, 0, 1, 1, 0, 0, 0, 0, 0, 1, 0, 0, 0, 1>>[((i - 1) % 16) + 1]])
Zeros(n) == AsSeq([i \in 1..n |-> 0])

\* C28: when the mode, length and payload bits do not exceed the capacity,
\* the stream is those bits, min(4, capacity - length) zeros, zeros up to a
\* byte boundary and the bytes 0xEC, 0x11 in turn up to exactly the capacity,
\* and the padding loop ends; bits beyond the capacity give the capacity
\* error and no stream.
C28_AssembledStream ==
    qr.pc = "assembled" =>
        LET capacity == info_capacity(qr.ver, qr.ecc).capacity
            head == qr.out.head
            term == Min(4, capacity - Len(head))
            fill == (8 - ((Len(head) + term) % 8)) % 8
        IN IF Len(head) <= capacity
           THEN /\ qr.out.err = ""
                /\ Len(qr.out.bits) = capacity
                /\ (capacity - Len(head) - term - fill) % 8 = 0
                /\ qr.out.bits = head \o Zeros(term + fill)
                                      \o PadBytes(capacity - Len(head) - term - fill)
           ELSE qr.out.err = "Capacity overflow" /\ qr.out.bits = <<>>

\* a text that leaves fewer than four bits for the terminator
C28_Witness ==
    /\ qr.pc = "assembled" /\ qr.out.err = ""
    /\ Len(qr.out.bits) - Len(qr.out.head) \in 1..3

\* C29: a payload that passes the capacity check has a count below
\* 2^lengthBits(version, mode): the length field has lengthBits bits, and the
\* bits after the mode, read as a number, are the count.
C29_LengthField ==
    (qr.pc = "assembled" /\ qr.out.err = "") =>
        LET lengthBits == info_lengthBits(qr.ver, qr.type)
        IN /\ qr.count < 2^lengthBits
           /\ Len(qr.out.len) = lengthBits
           /\ toNum(SubSeq(qr.out.bits, 5, 4 + lengthBits)) = qr.count

\* the largest byte count of version 9, low: 230 in a field of 8 bits
C29_Witness ==
    /\ qr.pc = "assembled" /\ qr.out.err = ""
    /\ qr.ver = 9 /\ qr.ecc = "low" /\ qr.type = "byte" /\ qr.count = 230
    /\ Len(qr.out.len) = 8

\* ---------------------------------------------------------------------
\* interleave(ver, ecc): encode, decode and the length check of decode
\* ---------------------------------------------------------------------
InterleaveSeeds == {101}

\* a data array of capacity / 8 bytes
InterleaveData(ver, ecc, seed) ==
    AsSeq([i \in 1..(info_capacity(ver, ecc).capacity \div 8) |-> (i * 7 + seed) % 256])

InitInterleave ==
    /\ bm = NoBitmap /\ pre = NoBitmap /\ op = NoOp /\ ret = NoRet
    /\ steps = 0 /\ rs = NoRS
    /\ \E ver \in Versions, ecc \in ECLevels, seed \in InterleaveSeeds :
          qr = [pc |-> "data", ver |-> ver, ecc |-> ecc,
                data |-> InterleaveData(ver, ecc, seed),
                coded |-> <<>>, given |-> <<>>,
                back |-> [err |-> "", res |-> <<>>]]

\* interleave(ver, ecc).encode(data)
InterleaveEncode ==
    /\ qr.pc = "data"
    /\ qr' = [qr EXCEPT !.pc = "coded",
                        !.coded = interleave_encode(qr.ver, qr.ecc, qr.data)]
    /\ Others

\* interleave(ver, ecc).decode of the encoded bytes
InterleaveDecode ==
    /\ qr.pc = "coded"
    /\ qr' = [qr EXCEPT !.pc = "decoded", !.given = qr.coded,
                        !.back = interleave_decode(qr.ver, qr.ecc, qr.coded)]
    /\ Others

\* interleave(ver, ecc).decode of an array of another length: empty, one byte
\* short, one byte long
InterleaveDecodeOther ==
    /\ qr.pc = "coded"
    /\ \E given \in {<<>>, SubSeq(qr.coded, 1, Len(qr.coded) - 1), qr.coded \o <<0>>} :
          qr' = [qr EXCEPT !.pc = "other", !.given = given,
                           !.back = interleave_decode(qr.ver, qr.ecc, given)]
    /\ Others

NextInterleave == InterleaveEncode \/ InterleaveDecode \/ InterleaveDecodeOther

SpecInterleave == InitInterleave /\ [][NextInterleave]_vars

\* C27: interleave.encode of capacity / 8 data bytes returns exactly
\* total codewords: the data bytes of all blocks column by column (short
\* blocks first, the last byte of the long blocks after the common columns),
\* then the ECC bytes column by column; interleave.decode of it returns the
\* data, and interleave.decode of an array of another length is rejected.
C27_Interleave ==
    LET c == info_capacity(qr.ver, qr.ecc)
        long == c.numBlocks - c.shortBlocks
        dataLen == c.capacity \div 8
        \* first byte (0-based) of block j in the data
        first(j) == j * c.blockLen + (IF j > c.shortBlocks THEN j - c.shortBlocks ELSE 0)
        blockOf(j) == SubSeq(qr.data, first(j) + 1,
                             first(j) + c.blockLen + (IF j < c.shortBlocks THEN 0 ELSE 1))
        eccOf(j, parity) ==
            \A e \in 0..(c.words - 1) :
                qr.coded[dataLen + e * c.numBlocks + j + 1] = parity[e + 1]
    IN /\ qr.pc = "coded" =>
          /\ Len(qr.coded) = c.total
          /\ dataLen = c.numBlocks * c.blockLen + long
          /\ \A j \in 0..(c.numBlocks - 1) :
                /\ \A i \in 0..(c.blockLen - 1) :
                      qr.coded[i * c.numBlocks + j + 1] = qr.data[first(j) + i + 1]
                /\ j >= c.shortBlocks =>
                      qr.coded[c.blockLen * c.numBlocks + (j - c.shortBlocks) + 1]
                          = qr.data[first(j) + c.blockLen + 1]
                /\ eccOf(j, RS_encode(c.words, blockOf(j)))
       /\ qr.pc = "decoded" => qr.back.err = "" /\ qr.back.res = qr.data
       /\ qr.pc = "other" => Len(qr.given) # c.total /\ qr.back.err # ""

C27_Witness ==
    /\ qr.pc = "decoded" /\ qr.ver = 5 /\ qr.ecc = "quartile"
    /\ Len(qr.coded) = 134 /\ qr.back.res = qr.data
    /\ Len(qr.data) = 62
    \* the last byte of the first long block follows the common columns
    /\ qr.coded[61] = qr.data[46]

\* ---------------------------------------------------------------------
\* zigzag(tpl, maskIdx, fn), one turn of the innermost loop at a time
\* ---------------------------------------------------------------------
ZigzagVersions == {1, 2, 7}
ZigzagMasks == {0, 3}

\* the timing column kept as the right column of a pair
skipTimingNone(xOffset) == xOffset

\* if (xOffset == 6) xOffset = 5
skipTiming(xOffset) == IF xOffset = 6 THEN 5 ELSE xOffset

InitZigzag ==
    /\ bm = NoBitmap /\ pre = NoBitmap /\ op = NoOp /\ ret = NoRet /\ steps = 0
    /\ rs = NoRS
    /\ \E ver \in ZigzagVersions, maskIdx \in ZigzagMasks :
          qr = [pc |-> "walk", ver |-> ver, maskIdx |-> maskIdx,
                tpl |-> drawTemplate(ver, "medium", maskIdx, FALSE),
                dir |-> -1, y |-> info_size(ver) - 1,
                xOffset |-> skipTiming(info_size(ver) - 1), j |-> 0,
                calls |-> <<>>]

\* what follows the visit of one cell: the left cell of the pair, the next
\* row, or the next pair of columns in the other direction
zigzagAdvance(q, size) ==
    IF q.j = 0 THEN [q EXCEPT !.j = 1]
    ELSE IF q.y + q.dir < 0 \/ q.y + q.dir >= size
    THEN IF q.xOffset - 2 > 0
         THEN [q EXCEPT !.j = 0, !.dir = -q.dir, !.xOffset = skipTiming(q.xOffset - 2)]
         ELSE [q EXCEPT !.j = 0, !.dir = -q.dir, !.xOffset = q.xOffset - 2, !.pc = "done"]
    ELSE [q EXCEPT !.j = 0, !.y = q.y + q.dir]

\* if (tpl.isDefined(x, y)) continue
ZigzagSkip ==
    /\ qr.pc = "walk"
    /\ isDefined(qr.tpl, qr.xOffset - qr.j, qr.y)
    /\ qr' = zigzagAdvance(qr, qr.tpl.height)
    /\ Others

\* fn(x, y, pattern(x, y))
ZigzagCall ==
    /\ qr.pc = "walk"
    /\ ~isDefined(qr.tpl, qr.xOffset - qr.j, qr.y)
    /\ qr' = zigzagAdvance(
                [qr EXCEPT !.calls = Append(@, [x |-> qr.xOffset - qr.j, y |-> qr.y,
                                                mask |-> PATTERNS(qr.maskIdx, qr.xOffset - qr.j, qr.y)])],
                qr.tpl.height)
    /\ Others

NextZigzag == ZigzagSkip \/ ZigzagCall

SpecZigzag == InitZigzag /\ [][NextZigzag]_vars

\* the cells of a template that are not defined
UnsetCells(tpl) ==
    {c \in (0..(tpl.width - 1)) \X (0..(tpl.height - 1)) : ~isDefined(tpl, c[1], c[2])}

\* the walk of the loop is the sequence of calls the drawing works with
ZigzagClosedForm == qr.pc = "done" => qr.calls = zigzag(qr.tpl, qr.maskIdx)

\* C26: the zig-zag walk calls back exactly once for every unset cell of the
\* template and for no defined cell, never in column 6; the pairs of columns
\* are taken from right to left, the direction alternates starting upwards,
\* and the right cell of a pair comes before the left one.
C26_ZigzagWalk ==
    LET size == qr.tpl.height
        n == Len(qr.calls)
        \* the column with the timing column taken out
        col(x) == IF x > 6 THEN x ELSE x + 1
        pair(x) == (size - 1 - col(x)) \div 2
        along(c) == IF pair(c.x) % 2 = 0 THEN size - 1 - c.y ELSE c.y
        left(c) == IF col(c.x) % 2 = 0 THEN 0 ELSE 1
        rank(c) == (pair(c.x) * size + along(c)) * 2 + left(c)
    IN /\ \A k \in 1..n :
            /\ ~isDefined(qr.tpl, qr.calls[k].x, qr.calls[k].y)
            /\ qr.calls[k].x # 6
            /\ qr.calls[k].x \in 0..(size - 1) /\ qr.calls[k].y \in 0..(size - 1)
       /\ \A k \in 1..(n - 1) : rank(qr.calls[k]) < rank(qr.calls[k + 1])
       /\ n > 0 => qr.calls[1] = [x |-> size - 1, y |-> size - 1,
                                  mask |-> PATTERNS(qr.maskIdx, size - 1, size - 1)]
       /\ qr.pc = "done" =>
             /\ {<<qr.calls[k].x, qr.calls[k].y>> : k \in 1..n} = UnsetCells(qr.tpl)
             /\ n = Cardinality(UnsetCells(qr.tpl))

C26_Witness ==
    /\ qr.pc = "done" /\ qr.ver = 7
    /\ Len(qr.calls) = 1568
    /\ \E k \in 1..(Len(qr.calls) - 1) :
          qr.calls[k].x = 7 /\ qr.calls[k + 1].x = 5

\* ---------------------------------------------------------------------
\* drawTemplate and drawQR with the codewords of a whole symbol
\* ---------------------------------------------------------------------
\* drawQR is applied up to this version
DrawMaxVersion == 3

\* the arguments a template of a larger version is drawn with
TemplateArgs ==
    {<<"low", 0, FALSE>>, <<"medium", 7, TRUE>>, <<"quartile", 5, FALSE>>, <<"high", 2, TRUE>>}

InitTemplate ==
    /\ bm = NoBitmap /\ pre = NoBitmap /\ op = NoOp /\ ret = NoRet /\ steps = 0
    /\ rs = NoRS
    /\ \E ver \in Versions, ecc \in ECLevels, maskIdx \in Masks, test \in BOOLEAN :
          /\ ver <= DrawMaxVersion \/ <<ecc, maskIdx, test>> \in TemplateArgs
          /\ qr = [pc |-> "args", ver |-> ver, ecc |-> ecc, maskIdx |-> maskIdx, test |-> test,
                   tpl |-> NoBitmap, out |-> [err |-> "", bitmap |-> NoBitmap]]

\* drawTemplate(ver, ecc, maskIdx, test)
DrawTemplate ==
    /\ qr.pc = "args"
    /\ qr' = [qr EXCEPT !.pc = "template",
                        !.tpl = drawTemplate(qr.ver, qr.ecc, qr.maskIdx, qr.test)]
    /\ Others

\* drawQR(ver, ecc, data, maskIdx, test) with total codewords of data
DrawQR ==
    /\ qr.pc = "template" /\ qr.ver <= DrawMaxVersion
    /\ qr' = [qr EXCEPT !.pc = "drawn",
                        !.out = drawQR(qr.ver, qr.ecc,
                                       AsSeq([i \in 1..info_capacity(qr.ver, qr.ecc).total |->
                                                 (i * 7 + 3) % 256]),
                                       qr.maskIdx, qr.test)]
    /\ Others

NextTemplate == DrawTemplate \/ DrawQR

SpecTemplate == InitTemplate /\ [][NextTemplate]_vars

\* the number of cells of a bitmap that are not defined: the cells less the
\* defined bits of the columns of every word
unsetCount(b) ==
    b.width * b.height
    - Sum(AsSeq([k \in 1..(b.words * b.height) |->
                    Cardinality(b.defined[k - 1]
                                \cap (IF k % b.words = 0 THEN 0..((b.width - 1) % 32)
                                      ELSE AllBits))]))

\* C25: for every version and every (ecc, mask, test) the template leaves at
\* least 8 * total codewords and fewer than 8 * total codewords + 8 cells
\* unset, and which cells are unset depends on the version only; drawQR places
\* all the bits of total codewords, does not throw, and leaves no cell unset.
C25_TemplateRoom ==
    LET total == info_capacity(qr.ver, qr.ecc).total
        room(unset) == unset >= 8 * total /\ unset < 8 * total + 8
    IN /\ qr.pc \in {"template", "drawn"} =>
          /\ qr.tpl.width = info_size(qr.ver) /\ qr.tpl.height = info_size(qr.ver)
          /\ room(unsetCount(qr.tpl))
          /\ total = info_capacity(qr.ver, "medium").total
       /\ qr.pc = "template" =>
             qr.tpl.defined = drawTemplate(qr.ver, "medium", 0, FALSE).defined
       /\ qr.pc = "drawn" =>
          /\ qr.out.err = ""
          /\ unsetCount(qr.out.bitmap) = 0
          /\ Len(zigzag(qr.tpl, qr.maskIdx)) \div 8 = total

C25_Witness ==
    /\ qr.pc = "drawn" /\ qr.ver = 2 /\ qr.ecc = "high" /\ qr.maskIdx = 7 /\ qr.test
    /\ unsetCount(qr.tpl) = 8 * 44 + 7
    /\ qr.out.err = ""

\* ---------------------------------------------------------------------
\* parseInfo: the format and the version guessed from the words read off a
\* symbol (readInfoBits)
\* ---------------------------------------------------------------------
MAX_BITS_ERROR == 3

\* for (const ecc of ['medium', 'low', 'high', 'quartile'])
FormatOrder == <<"medium", "low", "high", "quartile">>

NoBest == [best |-> undefined, bestScore |-> Infinity]

\* let format, not assigned yet
NoFormat == [ecc |-> "", mask |-> undefined]

\* the calls best.add(score, value) of a loop, applied in order to a fresh
\* best(): a call with score >= bestScore returns, so the first call of the
\* least score is the one kept
addAll(adds) ==
    LET least == CHOOSE i \in 1..Len(adds) :
                    /\ \A j \in 1..Len(adds) : adds[j].score >= adds[i].score
                    /\ \A j \in 1..(i - 1) : adds[j].score > adds[i].score
    IN IF Len(adds) = 0 \/ adds[least].score >= Infinity THEN NoBest
       ELSE [best |-> adds[least].value, bestScore |-> adds[least].score]

\* bestFormat.add(popcnt(w1 ^ bits), cur);
\* if (w1 !== w2) bestFormat.add(popcnt(w2 ^ bits), cur)
addBoth(w1, w2, bits, cur) ==
    <<[score |-> HammingDistance(w1, bits), value |-> cur]>>
    \o (IF w1 # w2 THEN <<[score |-> HammingDistance(w2, bits), value |-> cur]>> ELSE <<>>)

\* the loops over ecc and mask: a match assigns format and breaks the loop
\* over the masks, the loop over the levels goes on with the next level; the
\* candidates before the match of their level are handed to bestFormat
formatLoop(format1, format2) ==
    LET code == [k \in 0..31 |->
                    info_formatBits(FormatOrder[(k \div 8) + 1], k % 8)] @@ <<>>
        cur(k) == [ecc |-> FormatOrder[(k \div 8) + 1], mask |-> k % 8]
        matches(k) == code[k] = format1 \/ code[k] = format2
        \* the turn of candidate k is reached: no match before it in its level
        reached(k) == \A j \in (8 * (k \div 8))..(k - 1) : ~matches(j)
        assigned == {k \in 0..31 : reached(k) /\ matches(k)}
        added == {k \in 0..31 : reached(k) /\ ~matches(k)}
        adds[lo \in 0..32, hi \in -1..31] ==
            IF lo > hi THEN <<>>
            ELSE IF lo = hi
            THEN IF lo \in added THEN addBoth(format1, format2, code[lo], cur(lo)) ELSE <<>>
            ELSE adds[lo, (lo + hi) \div 2] \o adds[((lo + hi) \div 2) + 1, hi]
    IN [format |-> IF assigned = {} THEN NoFormat
                   ELSE cur(CHOOSE k \in assigned : \A j \in assigned : j <= k),
        st |-> addAll(adds[0, 31])]

\* for (let ver = 7; ver <= 40; ver++): a match assigns version and breaks;
\* the versions before it are handed to bestVer
versionLoop(version1, version2) ==
    LET code == [ver \in 7..40 |-> info_versionBits(ver)]
        matches(ver) == code[ver] = version1 \/ code[ver] = version2
        assigned == {ver \in 7..40 : matches(ver) /\ \A j \in 7..(ver - 1) : ~matches(j)}
        added == {ver \in 7..40 : \A j \in 7..ver : ~matches(j)}
        adds[lo \in 7..41, hi \in 6..40] ==
            IF lo > hi THEN <<>>
            ELSE IF lo = hi
            THEN IF lo \in added THEN addBoth(version1, version2, code[lo], lo) ELSE <<>>
            ELSE adds[lo, (lo + hi) \div 2] \o adds[((lo + hi) \div 2) + 1, hi]
    IN [version |-> IF assigned = {} THEN undefined ELSE CHOOSE ver \in assigned : TRUE,
        st |-> addAll(adds[7, 40])]

\* parseInfo(b), given the size of b and the words readInfoBits(b) returns:
\* the version and the format, or the error thrown
parseInfo(size, w) ==
    LET failed(msg) == [err |-> msg, version |-> undefined, ecc |-> "", mask |-> undefined]
        guessed(f) ==
            IF f.format # NoFormat THEN f.format
            ELSE IF f.st.bestScore <= MAX_BITS_ERROR THEN f.st.best
            ELSE NoFormat
        chosen(v) ==
            IF v.version # undefined THEN v.version
            ELSE IF v.st.bestScore <= MAX_BITS_ERROR THEN v.st.best
            ELSE undefined
        \* info.size.decode(size) = (size - 17) / 4 is a version below 7
        small == size - 17 < 4 * 7
        versioned(format, version) ==
            IF small
            THEN IF (size - 17) % 4 # 0 \/ size - 17 < 4 \/ size - 17 > 160
                 THEN failed("Invalid version")
                 ELSE [err |-> "", version |-> (size - 17) \div 4,
                       ecc |-> format.ecc, mask |-> format.mask]
            ELSE IF version = undefined THEN failed("Wrong version pattern")
            ELSE IF info_size(version) # size THEN failed("Wrong version size")
            ELSE [err |-> "", version |-> version, ecc |-> format.ecc, mask |-> format.mask]
        formatted(format) ==
            IF format = NoFormat THEN failed("wrong format pattern")
            ELSE versioned(format,
                           IF small THEN undefined
                           ELSE chosen(versionLoop(w.version1, w.version2)))
    IN formatted(guessed(formatLoop(w.format1, w.format2)))

\* bits flipped in the first and in the second copy of the format: none, three
\* and two, four and four
FormatFlips == {<<{}, {}>>, <<{0, 7, 14}, {0, 1}>>, <<{0, 1, 2, 3}, {0, 1, 4, 5}>>}
\* bits flipped in a copy of the version
VersionFlips == {{}, {0, 1, 2}, {0, 1, 2, 3}}

\* w with the bits of flips inverted
Flip(w, flips) == XorBits(w, Sum(AsSeq([i \in 1..18 |-> IF (i - 1) \in flips THEN 2^(i - 1) ELSE 0])), 18)

\* both copies of the format near any two codes, on a version 1 symbol; both
\* copies of the version near the codes of versions 7 and 8, on symbols of
\* the sizes of versions 7 and 8 and of no version
InitParseInfo ==
    /\ bm = NoBitmap /\ pre = NoBitmap /\ op = NoOp /\ ret = NoRet /\ steps = 0
    /\ rs = NoRS
    /\ \/ \E e1, e2 \in ECLevels, m1, m2 \in Masks, f \in FormatFlips :
             qr = [pc |-> "read", size |-> 21,
                   words |-> [version1 |-> 0, version2 |-> 0,
                              format1 |-> Flip(info_formatBits(e1, m1), f[1]),
                              format2 |-> Flip(info_formatBits(e2, m2), f[2])],
                   out |-> [err |-> "", version |-> undefined, ecc |-> "", mask |-> undefined]]
       \/ \E size \in {22, 45, 49, 50}, v1, v2 \in {7, 8}, f1, f2 \in VersionFlips, m \in {0, 5} :
             qr = [pc |-> "read", size |-> size,
                   words |-> [version1 |-> Flip(info_versionBits(v1), f1),
                              version2 |-> Flip(info_versionBits(v2), f2),
                              format1 |-> info_formatBits("low", m),
                              format2 |-> info_formatBits("low", m)],
                   out |-> [err |-> "", version |-> undefined, ecc |-> "", mask |-> undefined]]

\* parseInfo(b)
ParseInfo ==
    /\ qr.pc = "read"
    /\ qr' = [qr EXCEPT !.pc = "parsed", !.out = parseInfo(qr.size, qr.words)]
    /\ Others

NextParseInfo == ParseInfo

SpecParseInfo == InitParseInfo /\ [][NextParseInfo]_vars

\* the candidates in the order of the loops, and the code of each
FormatCandidate(k) == [ecc |-> FormatOrder[(k \div 8) + 1], mask |-> k % 8]
FormatCode == [k \in 0..31 |-> info_formatBits(FormatCandidate(k).ecc, FormatCandidate(k).mask)] @@ <<>>

\* the distance of candidate k to the nearer copy
FormatDistance(k, w) ==
    Min(HammingDistance(w.format1, FormatCode[k]), HammingDistance(w.format2, FormatCode[k]))

\* C24 as stated: parseInfo returns the first candidate, in the order medium,
\* low, high, quartile and mask 0 to 7, whose code equals either copy of the
\* format; if no code equals a copy it returns the candidate of the least
\* distance to either copy when that is at most 3 bits, and otherwise
\* fails with the wrong format error.
C24_FirstExactMatch ==
    qr.pc = "parsed" =>
        LET exact == {k \in 0..31 : FormatCode[k] = qr.words.format1
                                    \/ FormatCode[k] = qr.words.format2}
            least == CHOOSE d \in 0..18 :
                        /\ \E k \in 0..31 : FormatDistance(k, qr.words) = d
                        /\ \A k \in 0..31 : FormatDistance(k, qr.words) >= d
            nearest == CHOOSE k \in 0..31 :
                          /\ FormatDistance(k, qr.words) = least
                          /\ \A j \in 0..(k - 1) : FormatDistance(j, qr.words) > least
            is(k) == qr.out.ecc = FormatCandidate(k).ecc /\ qr.out.mask = FormatCandidate(k).mask
        IN IF exact # {}
           THEN qr.out.err # "wrong format pattern"
                /\ (qr.out.err = "" => is(CHOOSE k \in exact : \A j \in exact : k <= j))
           ELSE IF least <= MAX_BITS_ERROR
           THEN qr.out.err # "wrong format pattern" /\ (qr.out.err = "" => is(nearest))
           ELSE qr.out.err = "wrong format pattern"

\* what the loops do: of the levels that have a code equal to a copy, the
\* last one in the order of the loop wins, with its first such mask; without
\* an equal code the first candidate of the least distance, up to 3 bits
C24_LastLevelWins ==
    qr.pc = "parsed" =>
        LET exact == {k \in 0..31 : FormatCode[k] = qr.words.format1
                                    \/ FormatCode[k] = qr.words.format2}
            level == CHOOSE g \in 0..3 :
                        /\ \E k \in exact : k \div 8 = g
                        /\ \A k \in exact : k \div 8 <= g
            won == CHOOSE k \in exact : k \div 8 = level /\ \A j \in exact : j \div 8 = level => k <= j
            least == CHOOSE d \in 0..18 :
                        /\ \E k \in 0..31 : FormatDistance(k, qr.words) = d
                        /\ \A k \in 0..31 : FormatDistance(k, qr.words) >= d
            nearest == CHOOSE k \in 0..31 :
                          /\ FormatDistance(k, qr.words) = least
                          /\ \A j \in 0..(k - 1) : FormatDistance(j, qr.words) > least
            is(k) == qr.out.ecc = FormatCandidate(k).ecc /\ qr.out.mask = FormatCandidate(k).mask
        IN IF exact # {}
           THEN qr.out.err # "wrong format pattern" /\ (qr.out.err = "" => is(won))
           ELSE IF least <= MAX_BITS_ERROR
           THEN qr.out.err # "wrong format pattern" /\ (qr.out.err = "" => is(nearest))
           ELSE qr.out.err = "wrong format pattern"

\* ---------------------------------------------------------------------
\* toBitmap: the brightness of the pixels, the average of every block of
\* 8 x 8 pixels, the threshold of every pixel against 5 x 5 blocks
\* ---------------------------------------------------------------------
GRAYSCALE_RANGE == 24

\* cap(value, min, max) = Math.max(Math.min(value, max || value), min || value):
\* a bound of 0 is falsy and gives way to the value itself
cap(value, min, max) ==
    Max(Min(value, IF max = 0 THEN value ELSE max), IF min = 0 THEN value ELSE min)

\* brightness[j] = int((r + 2 * g + b) / 4) & 0xff
brightnessOf(img) ==
    LET bytesPerPixel == getBytesPerPixel(img)
    IN AsSeq([j \in 1..(img.height * img.width) |->
                 ((img.data[(j - 1) * bytesPerPixel + 1]
                   + 2 * img.data[(j - 1) * bytesPerPixel + 2]
                   + img.data[(j - 1) * bytesPerPixel + 3]) \div 4) % 256])

\* the pixels brightness[pos + xx] a block at (xPos, yPos) reads: column, row
\* and index into brightness
blockReads(width, xPos, yPos) ==
    {[col |-> xPos + xx, row |-> yPos + yy, at |-> (yPos + yy) * width + xPos + xx] :
        xx \in 0..(GRAYSCALE_BLOCK_SIZE - 1), yy \in 0..(GRAYSCALE_BLOCK_SIZE - 1)}

\* first pass, block (x, y): an index past the end of brightness reads
\* undefined, sum, min and max become NaN and int(average) is 0
blockAverage(q, x, y, left, up, upLeft) ==
    LET block == GRAYSCALE_BLOCK_SIZE
        reads == blockReads(q.img.width, cap(x * block, 0, q.img.width - block),
                            cap(y * block, 0, q.img.height - block))
        pixels == {q.brightness[r.at + 1] : r \in reads}
        total == Sum(AsSeq([k \in 1..(block * block) |->
                    q.brightness[(cap(y * block, 0, q.img.height - block) + ((k - 1) \div block))
                                     * q.img.width
                                 + cap(x * block, 0, q.img.width - block)
                                 + ((k - 1) % block) + 1]]))
        min == CHOOSE v \in pixels : \A u \in pixels : v <= u
        max == CHOOSE v \in pixels : \A u \in pixels : v >= u
        \* four times the average
        prev == up + 2 * left + upLeft
        average == IF max - min <= GRAYSCALE_RANGE
                   THEN IF y > 0 /\ x > 0 /\ 4 * min < prev THEN prev ELSE 2 * min
                   ELSE 4 * (total \div (block * block))
    IN IF \E r \in reads : r.at >= Len(q.brightness) THEN 0 ELSE average \div 4

\* first pass, the blocks of row y from left to right
blockRow(q, y) ==
    LET bWidth == (q.img.width + GRAYSCALE_BLOCK_SIZE - 1) \div GRAYSCALE_BLOCK_SIZE
        up(x) == IF y > 0 /\ x >= 0 THEN q.blocks[y][x + 1] ELSE 0
        row[x \in 0..(bWidth - 1)] ==
            IF x = 0 THEN <<blockAverage(q, 0, y, 0, 0, 0)>>
            ELSE LET before == row[x - 1]
                 IN Append(before, blockAverage(q, x, y, before[x], up(x), up(x - 1)))
    IN row[bWidth - 1]

\* second pass, block (x, y): the cells matrix.data[yPos + y][xPos + x] = true
blockCells(q, x, y) ==
    LET block == GRAYSCALE_BLOCK_SIZE
        bWidth == (q.img.width + block - 1) \div block
        bHeight == (q.img.height + block - 1) \div block
        top == cap(y, 2, bHeight - 3)
        left == cap(x, 2, bWidth - 3)
        total == Sum(AsSeq([k \in 1..25 |->
                    q.blocks[top + ((k - 1) \div 5) - 2 + 1][left + ((k - 1) % 5) - 2 + 1]]))
        reads == blockReads(q.img.width, cap(x * block, 0, q.img.width - block),
                            cap(y * block, 0, q.img.height - block))
    IN {<<r.col, r.row>> :
           r \in {t \in reads : t.at < Len(q.brightness)
                                /\ 25 * q.brightness[IF t.at < Len(q.brightness) THEN t.at + 1 ELSE 1]
                                   <= total}}

\* the origins and the pixels of the blocks of row y
rowOrigins(q, y) ==
    {<<cap(x * GRAYSCALE_BLOCK_SIZE, 0, q.img.width - GRAYSCALE_BLOCK_SIZE),
       cap(y * GRAYSCALE_BLOCK_SIZE, 0, q.img.height - GRAYSCALE_BLOCK_SIZE)>> :
        x \in 0..(((q.img.width + GRAYSCALE_BLOCK_SIZE - 1) \div GRAYSCALE_BLOCK_SIZE) - 1)}

rowReads(q, y) == UNION {blockReads(q.img.width, o[1], o[2]) : o \in rowOrigins(q, y)}

GraySizes == {40, 41, 47, 48}

\* an RGB image: black, white, or black left of the middle and white right of it
Shade(height, width, kind) ==
    [height |-> height, width |-> width,
     data |-> AsSeq([i \in 1..(3 * height * width) |->
                 CASE kind = "black" -> 0
                   [] kind = "white" -> 255
                   [] kind = "split" -> IF 2 * (((i - 1) \div 3) % width) < width THEN 0 ELSE 255])]

InitGray ==
    /\ bm = NoBitmap /\ pre = NoBitmap /\ op = NoOp /\ ret = NoRet /\ steps = 0
    /\ rs = NoRS
    /\ \E height \in GraySizes \cup {39}, width \in GraySizes,
          kind \in {"black", "white", "split"} :
          qr = [pc |-> "image", img |-> Shade(height, width, kind), err |-> "",
                brightness |-> <<>>, y |-> 0, blocks |-> <<>>,
                origins |-> {}, readCols |-> {}, readRows |-> {}, written |-> {}]

\* toBitmap up to the guard
GrayBrightness ==
    /\ qr.pc = "image"
    /\ qr' = IF getBytesPerPixel(qr.img) = 0
             THEN [qr EXCEPT !.pc = "thrown", !.err = "Unknown image format"]
             ELSE IF imageTooSmall(qr.img.width, qr.img.height, GRAYSCALE_BLOCK_SIZE)
             THEN [qr EXCEPT !.pc = "thrown", !.err = "image too small",
                             !.brightness = brightnessOf(qr.img)]
             ELSE [qr EXCEPT !.pc = "blocks", !.brightness = brightnessOf(qr.img)]
    /\ Others

\* toBitmap, first pass: one turn of the loop over y
GrayBlockRow ==
    /\ qr.pc = "blocks"
    /\ LET bHeight == (qr.img.height + GRAYSCALE_BLOCK_SIZE - 1) \div GRAYSCALE_BLOCK_SIZE
       IN qr' = [qr EXCEPT
                   !.blocks = Append(@, blockRow(qr, qr.y)),
                   !.origins = @ \cup rowOrigins(qr, qr.y),
                   !.readCols = @ \cup {r.col : r \in rowReads(qr, qr.y)},
                   !.readRows = @ \cup {r.row : r \in rowReads(qr, qr.y)},
                   !.y = IF qr.y + 1 < bHeight THEN qr.y + 1 ELSE 0,
                   !.pc = IF qr.y + 1 < bHeight THEN "blocks" ELSE "matrix"]
    /\ Others

\* toBitmap, second pass: one turn of the loop over y
GrayMatrixRow ==
    /\ qr.pc = "matrix"
    /\ LET bWidth == (qr.img.width + GRAYSCALE_BLOCK_SIZE - 1) \div GRAYSCALE_BLOCK_SIZE
           bHeight == (qr.img.height + GRAYSCALE_BLOCK_SIZE - 1) \div GRAYSCALE_BLOCK_SIZE
       IN qr' = [qr EXCEPT
                   !.written = @ \cup UNION {blockCells(qr, x, qr.y) : x \in 0..(bWidth - 1)},
                   !.origins = @ \cup rowOrigins(qr, qr.y),
                   !.readCols = @ \cup {r.col : r \in rowReads(qr, qr.y)},
                   !.readRows = @ \cup {r.row : r \in rowReads(qr, qr.y)},
                   !.y = qr.y + 1,
                   !.pc = IF qr.y + 1 < bHeight THEN "matrix" ELSE "returned"]
    /\ Others

NextGray == GrayBrightness \/ GrayBlockRow \/ GrayMatrixRow

SpecGray == InitGray /\ [][NextGray]_vars

\* C23 as stated: for an image of at least 40 x 40 pixels, multiples of 8 or
\* not, the origin of every block lies in [0, W - 8] x [0, H - 8], both passes
\* read the brightness of pixels of the image only, and only cells with
\* 0 <= x < W and 0 <= y < H are written.
C23_BlocksInside ==
    qr.pc \in {"blocks", "matrix", "returned"} =>
        /\ qr.img.width >= 40 /\ qr.img.height >= 40
        /\ \A o \in qr.origins :
              /\ 0 <= o[1] /\ o[1] <= qr.img.width - GRAYSCALE_BLOCK_SIZE
              /\ 0 <= o[2] /\ o[2] <= qr.img.height - GRAYSCALE_BLOCK_SIZE
        /\ qr.readCols \subseteq 0..(qr.img.width - 1)
        /\ qr.readRows \subseteq 0..(qr.img.height - 1)
        /\ \A c \in qr.written :
              0 <= c[1] /\ c[1] < qr.img.width /\ 0 <= c[2] /\ c[2] < qr.img.height

\* what holds: the statement for the images whose sides are multiples of 8
C23_WholeBlocksInside ==
    (qr.img.width % GRAYSCALE_BLOCK_SIZE = 0 /\ qr.img.height % GRAYSCALE_BLOCK_SIZE = 0)
        => C23_BlocksInside

\* ---------------------------------------------------------------------
\* detect: the estimate of the alignment pattern, its search in a window
\* of 4, 8 and 16 modules, and the perspective sampling of every module.
\* b.data[y][x] is read as the rows of cells of src/src/index.ts hold it.
\* Coordinates with a fraction are kept in quarters of a pixel and module
\* sizes in 28ths of a pixel, so that the halves of the code stay whole.
\* ---------------------------------------------------------------------
PATTERN_VARIANCE == 2

\* int(n) = n >>> 0 of the quotient num / den: the fraction is cut off,
\* Infinity and NaN give 0; a negative whole number t wraps to 2^32 + t,
\* kept here as 2^31 + t, which no coordinate of a bitmap reaches either
int(num, den) ==
    LET n == IF den < 0 THEN -num ELSE num
        d == IF den < 0 THEN -den ELSE den
    IN IF d = 0 THEN 0
       ELSE IF n >= 0 THEN n \div d
       ELSE IF (-n) \div d = 0 THEN 0
       ELSE (Infinity - ((-n) \div d)) + 1

abs(n) == IF n < 0 THEN -n ELSE n

\* Math.sqrt(distance2(p1, p2)) of two points that lie on one row or column
distance(p1, p2) ==
    LET d2 == (p1.x - p2.x) * (p1.x - p2.x) + (p1.y - p2.y) * (p1.y - p2.y)
    IN CHOOSE d \in 0..(abs(p1.x - p2.x) + abs(p1.y - p2.y)) : d * d = d2

\* ALIGNMENT = pattern([false, true, false])
ALIGNMENT == [pattern |-> <<FALSE, TRUE, FALSE>>, size |-> <<1, 1, 1>>, center |-> 2, length |-> 3]

\* b.data[y] is undefined outside of the rows: reading a cell of it throws
noRow(b, y) == y < 0 \/ y >= b.height

\* !!b.data[y][x] of a row that exists: outside of the row it is undefined
dataAt(b, x, y) == 0 <= x /\ x < b.width /\ get(b, x, y)

\* checkSize(runs, moduleSize, PATTERN_VARIANCE)
checkSize(runs, moduleSize) ==
    \A k \in 1..Len(runs) :
        ~(PATTERN_VARIANCE * abs(ALIGNMENT.size[k] * moduleSize - 28 * runs[k])
            >= ALIGNMENT.size[k] * moduleSize)

\* toCenter(runs, end), in quarters
toCenter(runs, end) == 4 * (end - runs[3]) - 2 * runs[2]

\* the cells of one run of check: from (x, y) in steps of neg or incr along the
\* column while the cell is inside and has the colour of the pattern
runOf(b, x, y, dy, colour) ==
    LET on(k) == isInside(b, x, y + k * dy) /\ get(b, x, y + k * dy) = colour
    IN CHOOSE n \in 0..b.height : ~on(n) /\ \A k \in 0..(n - 1) : on(k)

\* ALIGNMENT.check(b, runs, center, {y: 1, x: 0}, maxCount): false, or the count j
check(b, center, maxCount) ==
    LET ok(runs, j) == [ok |-> TRUE, runs |-> runs, j |-> j]
        no == [ok |-> FALSE, runs |-> <<0, 0, 0>>, j |-> 0]
        tooLong(run) == maxCount # 0 /\ run > maxCount
        down(up1, up0) ==
            LET dn1 == runOf(b, center.x, center.y + 1, 1, TRUE)
                dn2 == runOf(b, center.x, center.y + 1 + dn1, 1, FALSE)
            IN IF up1 + dn1 = 0 THEN no
               ELSE IF dn2 = 0 \/ tooLong(dn2) THEN no
               ELSE ok(<<up0, up1 + dn1, dn2>>, 1 + dn1 + dn2)
        up(up1) ==
            LET up0 == runOf(b, center.x, center.y - up1, -1, FALSE)
            IN IF up1 = 0 \/ up0 = 0 \/ tooLong(up0) THEN no ELSE down(up1, up0)
    IN up(runOf(b, center.x, center.y, -1, TRUE))

\* patternEquals(p, p2)
patternEquals(p, p2) ==
    /\ 7 * abs(p2.y - p.y) <= p2.moduleSize
    /\ 7 * abs(p2.x - p.x) <= p2.moduleSize
    /\ \/ abs(p2.moduleSize - p.moduleSize) <= 28
       \/ abs(p2.moduleSize - p.moduleSize) <= p.moduleSize

\* patternMerge(a, b)
patternMerge(a, b) ==
    [x |-> (a.count * a.x + b.count * b.x) \div (a.count + b.count),
     y |-> (a.count * a.y + b.count * b.y) \div (a.count + b.count),
     moduleSize |-> (a.count * a.moduleSize + b.count * b.moduleSize) \div (a.count + b.count),
     count |-> a.count + b.count]

\* ALIGNMENT.add(out, x, y, total): the list after the call and what is returned
add(out, x, y, total) ==
    LET cur == [x |-> x, y |-> y, moduleSize |-> 4 * total, count |-> 1]
        same == {idx \in 1..Len(out) : patternEquals(out[idx], cur)}
        first == CHOOSE idx \in same : \A other \in same : idx <= other
    IN IF same = {} THEN [out |-> Append(out, cur), res |-> <<>>]
       ELSE [out |-> [out EXCEPT ![first] = patternMerge(out[first], cur)],
             res |-> <<patternMerge(out[first], cur)>>]

\* the callback findAlignment hands to scanLine, called with the runs and x
alignmentAt(b, found, runs, x, y, moduleSize) ==
    LET keep == [out |-> found, res |-> <<>>]
        total == Sum(runs)
        xx == toCenter(runs, x)
        vertical(v) ==
            IF ~v.ok THEN keep
            ELSE IF 5 * abs(Sum(v.runs) - total) >= 2 * total THEN keep
            ELSE IF ~checkSize(v.runs, moduleSize) THEN keep
            ELSE add(found, xx, toCenter(v.runs, v.j + y), total)
    IN IF ~checkSize(runs, moduleSize) THEN keep
       ELSE vertical(check(b, [x |-> int(xx, 4), y |-> y], 2 * runs[2]))

DetectVersions == {1, 2, 3}
DetectBorders == {0, 2, 4}

\* the symbol of a version in an image with n light cells around it; with blot
\* the alignment pattern is painted over
DetectImage(ver, n, blot) ==
    LET data == AsSeq([i \in 1..info_capacity(ver, "low").total |-> (i * 7 + 3) % 256])
        hurt(symbol) ==
            IF blot THEN rect(symbol, At(info_size(ver) - 9, info_size(ver) - 9), Square(5), "dark")
            ELSE symbol
    IN border(hurt(drawQR(ver, "low", data, 0, FALSE).bitmap), n, "light")

NoDetect ==
    [pc |-> "finders", tl |-> At(0, 0), tr |-> At(0, 0), bl |-> At(0, 0), moduleSize |-> 0,
     size |-> 0, version |-> 0, est |-> At(0, 0), i |-> 0,
     xStart |-> 0, xEnd |-> 0, height |-> 0, middleY |-> 0, yGen |-> 0, y |-> 0, x |-> 0,
     pos |-> 1, runs |-> <<0, 0, 0>>, found |-> <<>>, alignmentPattern |-> <<>>,
     from |-> <<>>, transform |-> <<>>, row |-> 0, read |-> <<>>, err |-> ""]

\* the image and what findFinder and moduleSizeAvg give for it: the centres of the
\* three finder patterns and a module of one pixel
InitDetect ==
    /\ bm = NoBitmap /\ op = NoOp /\ ret = NoRet /\ steps = 0 /\ rs = NoRS
    /\ \E ver \in DetectVersions, n \in DetectBorders, blot \in BOOLEAN :
          /\ blot => ver > 1
          /\ pre = DetectImage(ver, n, blot)
          /\ qr = [NoDetect EXCEPT
                     !.tl = At(4 * n + 14, 4 * n + 14),
                     !.tr = At(4 * (n + info_size(ver)) - 14, 4 * n + 14),
                     !.bl = At(4 * n + 14, 4 * (n + info_size(ver)) - 14),
                     !.moduleSize = 28]

\* a throw of findAlignment is caught by detect, which goes on with i <<= 1
caught(q, msg) ==
    [q EXCEPT !.err = msg, !.i = 2 * q.i,
              !.pc = IF 2 * q.i <= 16 THEN "alignment" ELSE "transform"]

\* detect, from the finder patterns to the estimate of the alignment pattern
Estimate ==
    /\ qr.pc = "finders"
    /\ LET tltr == int(14 * distance(qr.tl, qr.tr) + qr.moduleSize, 2 * qr.moduleSize)
           tlbl == int(14 * distance(qr.tl, qr.bl) + qr.moduleSize, 2 * qr.moduleSize)
           size0 == int(tltr + tlbl + 14, 2)
           size == CASE size0 % 4 = 0 -> size0 + 1
                     [] size0 % 4 = 2 -> size0 - 1
                     [] size0 % 4 = 3 -> size0 - 2
                     [] OTHER -> size0
           version == (size - 17) \div 4
           br == At(qr.tr.x - qr.tl.x + qr.bl.x, qr.tr.y - qr.tl.y + qr.bl.y)
           side == info_size(version) - 7
           est == At(int(qr.tl.x * side + (side - 3) * (br.x - qr.tl.x), 4 * side),
                     int(qr.tl.y * side + (side - 3) * (br.y - qr.tl.y), 4 * side))
       IN IF (size - 17) % 4 # 0 \/ version < 1 \/ version > 40
          THEN qr' = [qr EXCEPT !.pc = "done", !.err = "Invalid version"]
          ELSE IF Len(info_alignmentPatterns(version)) > 0
          THEN qr' = [qr EXCEPT !.pc = "alignment", !.size = size, !.version = version,
                                !.est = est, !.i = 4]
          ELSE qr' = [qr EXCEPT !.pc = "transform", !.size = size, !.version = version]
    /\ UNCHANGED <<bm, pre, op, ret, steps, rs>>

\* findAlignment(b, est, allowanceFactor), up to the loop over the rows
FindAlignment ==
    /\ qr.pc = "alignment"
    /\ LET allowance == int(qr.i * qr.moduleSize, 28)
           leftX == cap(qr.est.x - allowance, 0, 0)
           rightX == cap(qr.est.x + allowance, 0, pre.width - 1)
           topY == cap(qr.est.y - allowance, 0, 0)
           bottomY == cap(qr.est.y + allowance, 0, pre.height - 1)
       IN IF 28 * (rightX - leftX) < 3 * qr.moduleSize \/ 28 * (bottomY - topY) < 3 * qr.moduleSize
          THEN qr' = caught([qr EXCEPT !.read = <<>>], "x, y, moduleSize")
          ELSE qr' = [qr EXCEPT !.pc = "row", !.xStart = leftX, !.xEnd = leftX + (rightX - leftX),
                                !.height = bottomY - topY,
                                !.middleY = int(2 * topY + (bottomY - topY), 2),
                                !.yGen = 0, !.found = <<>>, !.read = <<>>, !.err = ""]
    /\ UNCHANGED <<bm, pre, op, ret, steps, rs>>

\* the head of the loop over yGen and the start of ALIGNMENT.scanLine on the row
Row ==
    /\ qr.pc = "row"
    /\ LET diff == int(qr.yGen + 1, 2)
           y == qr.middleY + (IF qr.yGen % 2 = 1 THEN -diff ELSE diff)
       IN IF qr.yGen < qr.height
          THEN qr' = [qr EXCEPT !.pc = IF qr.xStart # 0 THEN "skip" ELSE "scan",
                                !.y = y, !.x = qr.xStart, !.pos = 1, !.runs = <<0, 0, 0>>,
                                !.read = <<>>]
          ELSE IF Len(qr.found) > 0
          THEN qr' = [qr EXCEPT !.pc = "transform", !.alignmentPattern = <<qr.found[1]>>,
                                !.read = <<>>]
          ELSE qr' = caught([qr EXCEPT !.read = <<>>], "Alignment pattern not found")
    /\ UNCHANGED <<bm, pre, op, ret, steps, rs>>

\* one turn of: while (x < xEnd && !!b.data[y][x] === res.pattern[0]) x++
Skip ==
    /\ qr.pc = "skip"
    /\ IF qr.x >= qr.xEnd THEN qr' = [qr EXCEPT !.pc = "scan", !.read = <<>>]
       ELSE IF noRow(pre, qr.y)
       THEN qr' = caught([qr EXCEPT !.read = <<At(qr.x, qr.y)>>], "TypeError")
       ELSE IF dataAt(pre, qr.x, qr.y) = ALIGNMENT.pattern[1]
       THEN qr' = [qr EXCEPT !.x = qr.x + 1, !.read = <<At(qr.x, qr.y)>>]
       ELSE qr' = [qr EXCEPT !.pc = "scan", !.read = <<At(qr.x, qr.y)>>]
    /\ UNCHANGED <<bm, pre, op, ret, steps, rs>>

\* one turn of the loop of scanLine: for (; x < xEnd; x++), with the callback
Scan ==
    /\ qr.pc = "scan"
    /\ LET same == dataAt(pre, qr.x, qr.y) = ALIGNMENT.pattern[qr.pos]
           runs == IF same THEN [qr.runs EXCEPT ![qr.pos] = @ + 1] ELSE qr.runs
           x == IF same THEN qr.x + 1 ELSE qr.x
           q == [qr EXCEPT !.read = <<At(qr.x, qr.y)>>]
           called(c) ==
               IF c.res # <<>>
               THEN [q EXCEPT !.pc = "transform", !.found = c.out, !.alignmentPattern = c.res]
               ELSE [q EXCEPT !.found = c.out, !.x = x + 1, !.pos = ALIGNMENT.length - 1,
                              !.runs = <<runs[3], 1, 0>>]
       IN IF qr.x >= qr.xEnd
          THEN qr' = [qr EXCEPT !.pc = "row", !.yGen = qr.yGen + 1, !.read = <<>>]
          ELSE IF noRow(pre, qr.y) THEN qr' = caught(q, "TypeError")
          ELSE IF same /\ qr.x # pre.width - 1
          THEN qr' = [q EXCEPT !.runs = runs, !.x = qr.x + 1]
          ELSE IF qr.pos # ALIGNMENT.length
          THEN qr' = [q EXCEPT !.runs = [runs EXCEPT ![qr.pos + 1] = @ + 1],
                               !.pos = qr.pos + 1, !.x = x + 1]
          ELSE qr' = called(alignmentAt(pre, qr.found, runs, x, qr.y, qr.moduleSize))
    /\ UNCHANGED <<bm, pre, op, ret, steps, rs>>

RECURSIVE gcd(_, _)
gcd(a, b) == IF b = 0 THEN abs(a) ELSE gcd(b, a % b)

\* a matrix of the perspective transform stands for the points it maps to, which
\* a common factor of its nine entries does not change: it is kept in lowest terms
lowest(m) ==
    LET row(r) == gcd(gcd(abs(m[r][1]), abs(m[r][2])), abs(m[r][3]))
        g == gcd(gcd(row(1), row(2)), row(3))
    IN IF g = 0 THEN m ELSE [r \in 1..3 |-> [c \in 1..3 |-> m[r][c] \div g]] @@ <<>>

\* squareToQuadrilateral(p), times den where the code divides by it
squareToQuadrilateral(p) ==
    LET d3 == At(p[1].x - p[2].x + p[3].x - p[4].x, p[1].y - p[2].y + p[3].y - p[4].y)
        d1 == At(p[2].x - p[3].x, p[2].y - p[3].y)
        d2 == At(p[4].x - p[3].x, p[4].y - p[3].y)
        den == d1.x * d2.y - d2.x * d1.y
        p13 == d3.x * d2.y - d2.x * d3.y
        p23 == d1.x * d3.y - d3.x * d1.y
    IN IF d3.x = 0 /\ d3.y = 0
       THEN << <<p[2].x - p[1].x, p[3].x - p[2].x, p[1].x>>,
               <<p[2].y - p[1].y, p[3].y - p[2].y, p[1].y>>,
               <<0, 0, 1>> >>
       ELSE lowest(<< <<(p[2].x - p[1].x) * den + p13 * p[2].x,
                        (p[4].x - p[1].x) * den + p23 * p[4].x, p[1].x * den>>,
                      <<(p[2].y - p[1].y) * den + p13 * p[2].y,
                        (p[4].y - p[1].y) * den + p23 * p[4].y, p[1].y * den>>,
                      <<p13, p23, den>> >>)

\* qToS of transform: the adjugate of p
qToS(p) ==
    lowest(<< <<p[2][2] * p[3][3] - p[3][2] * p[2][3],
                p[3][2] * p[1][3] - p[1][2] * p[3][3],
                p[1][2] * p[2][3] - p[2][2] * p[1][3]>>,
              <<p[3][1] * p[2][3] - p[2][1] * p[3][3],
                p[1][1] * p[3][3] - p[3][1] * p[1][3],
                p[2][1] * p[1][3] - p[1][1] * p[2][3]>>,
              <<p[2][1] * p[3][2] - p[3][1] * p[2][2],
                p[3][1] * p[1][2] - p[1][1] * p[3][2],
                p[1][1] * p[2][2] - p[2][1] * p[1][2]>> >>)

\* sToQ.map((i) => i.map((_, qx) => i.reduce((acc, v, j) => acc + v * qToS[j][qx], 0)))
transformOf(sToQ, q) ==
    lowest([r \in 1..3 |-> [c \in 1..3 |->
               sToQ[r][1] * q[1][c] + sToQ[r][2] * q[2][c] + sToQ[r][3] * q[3][c]] @@ <<>>] @@ <<>>)

\* points[i], points[i + 1] of module i / 2 of row y
pointOf(p, col, y) ==
    LET x4 == 4 * col + 2
        y4 == 4 * y + 2
        den == p[3][1] * x4 + p[3][2] * y4 + p[3][3]
    IN At(int(p[1][1] * x4 + p[1][2] * y4 + p[1][3], 4 * den),
          int(p[2][1] * x4 + p[2][2] * y4 + p[2][3], 4 * den))

\* transform(b, size, from, to), up to the loop over the rows
Transform ==
    /\ qr.pc = "transform"
    /\ LET size == qr.size
           found == qr.alignmentPattern # <<>>
           br == IF found THEN At(qr.alignmentPattern[1].x, qr.alignmentPattern[1].y)
                 ELSE At(qr.tr.x - qr.tl.x + qr.bl.x, qr.tr.y - qr.tl.y + qr.bl.y)
           toBR == IF found THEN At(4 * size - 26, 4 * size - 26)
                   ELSE At(4 * size - 14, 4 * size - 14)
           from == <<qr.tl, qr.tr, br, qr.bl>>
           to == <<At(14, 14), At(4 * size - 14, 14), toBR, At(14, 4 * size - 14)>>
       IN /\ qr' = [qr EXCEPT !.pc = "sample", !.from = from, !.row = 0, !.read = <<>>,
                              !.transform = transformOf(squareToQuadrilateral(from),
                                                        qToS(squareToQuadrilateral(to)))]
          /\ bm' = NewBitmap(size, size)
    /\ UNCHANGED <<pre, op, ret, steps, rs>>

\* one row of transform: the points of its modules, then the cell read for each
Sample ==
    /\ qr.pc = "sample"
    /\ LET size == qr.size
           points == [col \in 0..(size - 1) |->
                         LET p == pointOf(qr.transform, col, qr.row)
                         IN At(cap(p.x, 0, pre.width - 1), cap(p.y, 0, pre.height - 1))]
           throws == {col \in 0..(size - 1) : noRow(pre, points[col].y)}
           last == IF throws = {} THEN size - 1
                   ELSE CHOOSE col \in throws : \A other \in throws : col <= other
           dark == {col \in 0..last : dataAt(pre, points[col].x, points[col].y)}
           sets == SortedSeq(dark)
       IN /\ qr' = [qr EXCEPT !.read = AsSeq([k \in 1..(last + 1) |->
                                                 points[k - 1]]),
                              !.row = qr.row + 1,
                              !.err = IF throws # {} THEN "TypeError" ELSE "",
                              !.pc = IF throws # {} \/ qr.row + 1 = size THEN "done" ELSE "sample"]
          /\ bm' = setEach(bm, AsSeq([k \in 1..Len(sets) |->
                                         [x |-> sets[k], y |-> qr.row, v |-> "dark"]]))
    /\ UNCHANGED <<pre, op, ret, steps, rs>>

NextDetect == Estimate \/ FindAlignment \/ Row \/ Skip \/ Scan \/ Transform \/ Sample

SpecDetect == InitDetect /\ [][NextDetect]_vars

\* the cells read by the last step
DetectReads == {qr.read[k] : k \in 1..Len(qr.read)}

\* C22: every cell that the search of the alignment pattern (for the factors
\* 4, 8 and 16) and the perspective sampling read has 0 <= x < W and
\* 0 <= y < H: the search window and the sampled points are clamped into
\* the image before the bitmap is read
C22_ReadsInside ==
    \A c \in DetectReads : 0 <= c.x /\ c.x < pre.width /\ 0 <= c.y /\ c.y < pre.height

\* what the code keeps: the search reads the cells of the window around the
\* estimate as it is computed, whether they lie in the image or not, and rows
\* outside of the image end the search; the sampling reads the computed points
DetectReadsUnclamped ==
    /\ qr.pc \in {"skip", "scan", "row", "alignment"} =>
          \A c \in DetectReads :
              /\ qr.xStart <= c.x /\ c.x < qr.xEnd
              /\ abs(c.y - qr.est.y) <= qr.i
    /\ qr.pc \in {"sample", "done"} /\ qr.err = "" =>
          \A k \in 1..Len(qr.read) : qr.read[k] = pointOf(qr.transform, k - 1, qr.row - 1)

\* the sampling of an upright symbol gives back its modules
DetectRectified ==
    qr.pc = "done" /\ qr.err = "" =>
        LET n == (pre.width - qr.size) \div 2
        IN \A x \in 0..(qr.size - 1), y \in 0..(qr.size - 1) :
               get(bm, x, y) = get(pre, x + n, y + n)

\* ---------------------------------------------------------------------
\* decodeBitmap on the matrix that drawQR draws: the format and version
\* words, the codewords read along the zigzag, the segments of the text
\* ---------------------------------------------------------------------
\* readInfoBits(b): every word is read bit by bit with (out << 1) | bit
readInfoBits(b) ==
    LET size == b.height
        word(cells) ==
            Sum(AsSeq([k \in 1..Len(cells) |->
                    IF dataAt(b, cells[k].x, cells[k].y) THEN 2^(Len(cells) - k) ELSE 0]))
    IN [version1 |-> word(AsSeq([k \in 1..18 |->
                            At(size - 9 - ((k - 1) % 3), 5 - ((k - 1) \div 3))])),
        version2 |-> word(AsSeq([k \in 1..18 |->
                            At(5 - ((k - 1) \div 3), size - 9 - ((k - 1) % 3))])),
        format1 |-> word(AsSeq([x \in 1..6 |-> At(x - 1, 8)])
                         \o <<At(7, 8), At(8, 8), At(8, 7)>>
                         \o AsSeq([k \in 1..6 |-> At(8, 6 - k)])),
        format2 |-> word(AsSeq([k \in 1..7 |-> At(8, size - k)])
                         \o AsSeq([k \in 1..8 |-> At(size - 9 + k, 8)]))]

\* the codewords decodeBitmap reads: bit !!b.data[y][x] !== m of every call of
\* zigzag on the template, eight to a byte, or the error thrown
readCodewords(b, version, ecc, mask) ==
    LET total == info_capacity(version, ecc).total
        bitAt(c) == IF dataAt(b, c.x, c.y) # c.mask THEN 1 ELSE 0
        byteOf(calls, k) ==
            Sum(AsSeq([j \in 1..8 |-> bitAt(calls[8 * (k - 1) + j]) * 2^(8 - j)]))
        read(calls) ==
            IF Len(calls) \div 8 # total
            THEN [err |-> "decode: pos, total", bytes |-> <<>>]
            ELSE [err |-> "", bytes |-> AsSeq([k \in 1..total |-> byteOf(calls, k)])]
    IN read(zigzag(drawTemplate(version, ecc, mask, FALSE), mask))

SymbolVersions == {1, 2, 7}

\* an encoding and a text of it: digits that fill version 1 (quartile) to the
\* bit, a few digits, letters, and bytes of one, two and three bytes a
\* character, the last text beginning with U+FEFF
SymbolTexts ==
    {<<"numeric", Digits(ExactFitDigits)>>, <<"numeric", Digits(4)>>,
     <<"alphanumeric", HelloWorld>>, <<"byte", <<72, 105>>>>,
     <<"byte", <<233, 8364, 33>>>>, <<"byte", <<65279, 65>>>>}

NoSymbol ==
    [pc |-> "text", type |-> "", text |-> <<>>, ver |-> 0, ecc |-> "", mask |-> 0,
     data |-> <<>>, info |-> [err |-> "", version |-> undefined, ecc |-> "", mask |-> undefined],
     version |-> undefined, bits |-> <<>>, res |-> <<>>, read |-> 0, err |-> ""]

InitSymbol ==
    /\ bm = NoBitmap /\ pre = NoBitmap /\ op = NoOp /\ ret = NoRet /\ steps = 0
    /\ rs = NoRS
    /\ \E t \in SymbolTexts, ver \in SymbolVersions, ecc \in ECLevels, mask \in Masks :
          /\ ver = 1 \/ \E a \in TemplateArgs : a[1] = ecc /\ a[2] = mask
          /\ qr = [NoSymbol EXCEPT !.type = t[1], !.text = t[2], !.ver = ver, !.ecc = ecc,
                                   !.mask = mask]

\* encode(ver, ecc, text, type): the codewords, or the text does not fit
SymbolEncode ==
    /\ qr.pc = "text"
    /\ LET encoded(r) ==
               IF r.err # "" THEN [qr EXCEPT !.pc = "nofit", !.err = r.err]
               ELSE [qr EXCEPT !.pc = "encoded", !.data = r.data]
       IN qr' = encoded(encode(qr.ver, qr.ecc,
                               IF qr.type = "byte" THEN utf8ToBytes(qr.text) ELSE qr.text,
                               qr.type))
    /\ Others

\* drawQR(ver, ecc, data, mask): the matrix of size(ver) x size(ver) modules
SymbolDraw ==
    /\ qr.pc = "encoded"
    /\ LET drawn(d) ==
               /\ qr' = [qr EXCEPT !.pc = IF d.err # "" THEN "nofit" ELSE "drawn",
                                   !.err = d.err]
               /\ bm' = d.bitmap
       IN drawn(drawQR(qr.ver, qr.ecc, qr.data, qr.mask, FALSE))
    /\ UNCHANGED <<pre, op, ret, steps, rs>>

\* decodeBitmap(b): the check of the size, then parseInfo(b)
DecodeInfo ==
    /\ qr.pc = "drawn"
    /\ LET size == bm.height
           parsed(i) ==
               IF i.err # "" THEN [qr EXCEPT !.pc = "thrown", !.err = i.err, !.info = i]
               ELSE [qr EXCEPT !.pc = "info", !.info = i, !.version = i.version]
       IN IF size < 21 \/ size % 4 # 1 \/ size # bm.width
          THEN qr' = [qr EXCEPT !.pc = "thrown", !.err = "decode: wrong size"]
          ELSE qr' = parsed(parseInfo(size, readInfoBits(bm)))
    /\ Others

\* decodeBitmap(b): the codewords along the zigzag and interleave.decode
DecodeData ==
    /\ qr.pc = "info"
    /\ LET bitsOf(bytes) ==
               AsSeq([k \in 1..(8 * Len(bytes)) |->
                         binAt(bytes[((k - 1) \div 8) + 1], 8, ((k - 1) % 8) + 1)])
           corrected(r) ==
               IF r.err # "" THEN [qr EXCEPT !.pc = "thrown", !.err = r.err]
               ELSE [qr EXCEPT !.pc = "segments", !.bits = bitsOf(r.res), !.res = <<>>]
           read(c) ==
               IF c.err # "" THEN [qr EXCEPT !.pc = "thrown", !.err = c.err]
               ELSE corrected(interleave_decode(qr.info.version, qr.info.ecc, c.bytes))
       IN qr' = read(readCodewords(bm, qr.info.version, qr.info.ecc, qr.info.mask))
    /\ Others

NextSymbol == SymbolEncode \/ SymbolDraw \/ DecodeInfo \/ DecodeData \/ ReadSegment

SpecSymbol == InitSymbol /\ [][NextSymbol]_vars

SymbolRecovered ==
    /\ qr.pc # "thrown"
    /\ qr.pc \in {"info", "segments", "returned"} =>
          qr.info.ecc = qr.ecc /\ qr.info.mask = qr.mask /\ qr.info.version = qr.ver

\* C21: decodeBitmap of the matrix that drawQR draws for a text that fits
\* (any encoding, ecc level, version and mask; no border, scale 1, no module
\* altered) recovers the ecc level, the mask and the version, and returns
\* exactly the text
C21_RoundTrip ==
    /\ SymbolRecovered
    /\ qr.pc = "returned" => qr.res = qr.text

\* what the code keeps: the same for every text that does not begin with
\* U+FEFF; of a byte text that does, the characters after it are returned
SymbolRoundTripButBOM ==
    /\ SymbolRecovered
    /\ qr.pc = "returned" =>
          qr.res = IF qr.type = "byte" /\ qr.text # <<>> /\ qr.text[1] = 65279
                   THEN Tail(qr.text) ELSE qr.text

====
